---- MODULE Spec2Model ----
(***************************************************************************)
(* Model of the pump command engine of MeinKPS (Pump/commands.py): the     *)
(* Command / PumpCommand / PumpBigCommand hierarchy, its prelude, core,    *)
(* postlude and retry phases, and the decode functions of set commands,    *)
(* multi-chunk get commands and the history page reader.                   *)
(***************************************************************************)
EXTENDS Integers, Sequences, FiniteSets, TLC

VARIABLES
    obj,        \* code, report, timeout, parameters, data and packets["TX"]
    prev,       \* how the previous run on the instance ended
    kind,       \* class of the command instance
    repeat,     \* self.repeat: Init / ACK / NAK counts
    retry,      \* what the instance attribute `retry` is bound to
    pc,         \* position of the run
    i,          \* loop index of prelude / postlude
    n,          \* loop index of retry
    packetsRX,  \* self.packets["RX"]
    subRX,      \* packets["RX"] of the bound Init / ACK / NAK sub-commands
    response,   \* self.response
    err,        \* error raised to the caller of the run
    phases,     \* phases entered by the current run, in order
    frames,     \* frames handed to the radio by the current run, with outcome
    page,       \* pump side: the chunks the pump answers with
    arg,        \* argument given to the run
    caller,     \* where retry was called from
    errArgs,    \* values carried by the error raised
    subTX,      \* packets["TX"] of the bound Init / ACK / NAK sub-commands
    reporter,   \* entries of the reports, as Reporter.add left them
    stick,      \* the stick's "Radio TX/RX" command, shared by all commands
    heap,       \* objects of several command instances, by address
    cur         \* the instance whose run is under way, and its position

vars == <<obj, prev, kind, repeat, retry, pc, i, n, packetsRX, subRX, response, err,
          phases, frames, page, arg, caller, errArgs, subTX, reporter, stick,
          heap, cur>>

\* None is a value of its own: a tuple longer than every list of the model
None == [k \in 1..99 |-> "None"]

(***************************************************************************)
(* Bounds of the model.                                                    *)
(***************************************************************************)
\* bytes of payload per chunk the modelled pump answers with
ChunkLen == 2
\* longest received-packet sequence given to a decode function on its own
MaxPkts == 3
\* largest prelude count given to a decode function on its own
MaxP == 2
\* largest NAK budget (besides the one of the get commands) given to retry
MaxNak == 3

(***************************************************************************)
(* Hex pairs ("06", "0A", ...) are pairs of hex digit characters.          *)
(***************************************************************************)
HexDigits == <<"0", "1", "2", "3", "4", "5", "6", "7",
               "8", "9", "A", "B", "C", "D", "E", "F">>

DigitVal(c) == (CHOOSE k \in 1..16 : HexDigits[k] = c) - 1

\* "{0:02X}".format(b)
Hexify(b) == <<HexDigits[(b \div 16) + 1], HexDigits[(b % 16) + 1]>>

HexVal(h) == 16 * DigitVal(h[1]) + DigitVal(h[2])

\* the element of a one-element set
Only(S) == CHOOSE x \in S : TRUE

\* lib.dehexify: hex pairs to integer byte values
Dehexify(hs) == Only({[k \in 1..Len(h) |-> HexVal(h[k])] : h \in {hs}})

\* lib.flatten: one list out of a list of lists
RECURSIVE Flatten(_)
Flatten(ls) == IF ls = <<>> THEN <<>> ELSE Head(ls) \o Flatten(Tail(ls))

\* lib.unpack, default (big-endian) order
RECURSIVE Unpack(_)
Unpack(bs) == IF bs = <<>> THEN 0
              ELSE 256 * Unpack(SubSeq(bs, 1, Len(bs) - 1)) + bs[Len(bs)]

\* python slices l[k:], l[:-2], l[-2:]
SliceFrom(l, k) == SubSeq(l, k + 1, Len(l))
DropLast2(l) == SubSeq(l, 1, Len(l) - 2)
Last2(l) == SubSeq(l, IF Len(l) > 2 THEN Len(l) - 1 ELSE 1, Len(l))

(***************************************************************************)
(* CRC16: seed 0xFFFF, polynomial 0x1021, no reflection, byte by byte.     *)
(***************************************************************************)
RECURSIVE XorBits(_, _, _)
XorBits(a, b, w) ==
    IF w = 0 THEN 0
    ELSE (IF (a % 2) = (b % 2) THEN 0 ELSE 1)
         + 2 * XorBits(a \div 2, b \div 2, w - 1)

Xor16(a, b) == XorBits(a, b, 16)

\* one shift of the 16-bit register
CRCShift1(crc) ==
    IF crc >= 32768 THEN Xor16((crc * 2) % 65536, 4129)
    ELSE (crc * 2) % 65536

\* the register after k shifts (each intermediate value is computed once)
RECURSIVE CRCShift(_, _)
CRCShift(crc, k) ==
    IF k = 0 THEN crc
    ELSE Only({CRCShift(c, k - 1) : c \in {CRCShift1(crc)}})

\* the register after the bytes bs[lo..hi], taken in order; the range is
\* split in two so that each intermediate register is computed once
RECURSIVE CRCRange(_, _, _, _)
CRCRange(crc, bs, lo, hi) ==
    IF lo > hi THEN crc
    ELSE IF lo = hi THEN CRCShift(Xor16(crc, bs[lo] * 256), 8)
    ELSE Only({Only({CRCRange(c, bs, m + 1, hi) :
                     c \in {CRCRange(crc, bs, lo, m)}}) :
               m \in {(lo + hi) \div 2}})

CRCFrom(crc, bs) == Only({CRCRange(crc, b, 1, Len(b)) : b \in {bs}})

newComputeCRC16(bs) == CRCFrom(65535, bs)

(***************************************************************************)
(* Packets: opcode and payload, both in hex pairs.                         *)
(***************************************************************************)
Pkt(c, p) == [code |-> c, payload |-> p]

H(s1, s2) == <<s1, s2>>

AckPkt == Pkt(H("0", "6"), <<H("0", "0")>>)

NakPkt == Pkt(H("1", "5"), <<H("0", "0")>>)

\* packets["RX"][-1]
LastPkt(pkts) == pkts[Len(pkts)]

(***************************************************************************)
(* Decode functions.                                                       *)
(***************************************************************************)
\* variant of PumpSetDecodeRaises: only the opcode is compared
PumpSetDecodeRaises_opcodeOnly(pkts) ==
    LastPkt(pkts).code # H("0", "6")

\* PumpSetCommand.decode: TRUE when it raises UnsuccessfulRadioCommand
PumpSetDecodeRaises(pkts) ==
    LET pkt == LastPkt(pkts)
        ack == <<H("0", "6"), H("0", "0")>>
    IN  <<pkt.code>> \o pkt.payload # ack

\* variant of PumpGetBigDecode: the prelude packets are not skipped
PumpGetBigDecode_noSkip(pkts, P) ==
    LET payload == Dehexify(Flatten([k \in 1..Len(pkts) |-> pkts[k].payload]))
    IN  <<payload, Len(payload)>>

\* PumpGetBigCommand.decode: [payload, len(payload)]
PumpGetBigDecode(pkts, P) ==
    LET ps == SliceFrom(pkts, P)
    IN  Only({<<payload, Len(payload)>> :
                payload \in {Dehexify(Flatten([k \in 1..Len(ps) |->
                                                  ps[k].payload]))}})

\* ReadPumpHistoryPage.crc: the CRC the page carries and the one computed
HistoryPageCrc(payload) ==
    [expected |-> Unpack(Last2(payload)),
     computed |-> newComputeCRC16(DropLast2(payload))]

\* variant of HistoryPageDecode: the CRC bytes are left in the response
HistoryPageDecode_keepCRC(pkts, P, old) ==
    LET payload == Dehexify(Flatten([k \in 1..Len(SliceFrom(pkts, P)) |->
                                        SliceFrom(pkts, P)[k].payload]))
        crc == HistoryPageCrc(payload)
    IN  IF crc.computed # crc.expected
        THEN [err |-> "HistoryPageBadCRC", expected |-> crc.expected,
              computed |-> crc.computed, response |-> old]
        ELSE [err |-> "none", expected |-> crc.expected,
              computed |-> crc.computed, response |-> payload]

\* ReadPumpHistoryPage.decode: the error raised (if any) and self.response
HistoryPageDecode(pkts, P, old) ==
    LET Checked(payload, crc) ==
            IF crc.computed # crc.expected
            THEN [err |-> "HistoryPageBadCRC", expected |-> crc.expected,
                  computed |-> crc.computed, response |-> old]
            ELSE [err |-> "none", expected |-> crc.expected,
                  computed |-> crc.computed, response |-> DropLast2(payload)]
        Summed(payload) ==
            Only({Checked(payload, crc) : crc \in {HistoryPageCrc(payload)}})
    IN  Only({Summed(payload) : payload \in {PumpGetBigDecode(pkts, P)[1]}})

(***************************************************************************)
(* Construction of the command objects.                                    *)
(***************************************************************************)
Kinds == {"PowerPump", "DeliverPumpBolus", "ReadPumpHistoryPage"}

IsSet(k) == k \in {"PowerPump", "DeliverPumpBolus"}
IsGetBig(k) == k \in {"ReadPumpHistoryPage"}

PowerPumpInitRepeat == 50
GetBigNakRepeat == 10
HistoryPageAckRepeat == 15

\* PumpBigCommand.__init__
PumpBigRepeat == [Init |-> 1, ACK |-> 0, NAK |-> 0]

\* PumpGetBigCommand.__init__
PumpGetBigRepeat == [PumpBigRepeat EXCEPT !.NAK = GetBigNakRepeat]

\* variant of HistoryPageRepeat: no Init exchange
HistoryPageRepeat_noInit ==
    [Init |-> 0, ACK |-> HistoryPageAckRepeat, NAK |-> GetBigNakRepeat]

\* ReadPumpHistoryPage.__init__
HistoryPageRepeat == [PumpGetBigRepeat EXCEPT !.ACK = HistoryPageAckRepeat]

\* PowerPump.__init__
PowerPumpRepeat == [PumpBigRepeat EXCEPT !.Init = PowerPumpInitRepeat]

RepeatOf(k) ==
    CASE k = "PowerPump" -> PowerPumpRepeat
      [] k = "DeliverPumpBolus" -> PumpBigRepeat
      [] k = "ReadPumpHistoryPage" -> HistoryPageRepeat

\* An attribute is bound to a plain value or to a method of the class.
IntAttr(v) == [callable |-> FALSE, value |-> v]
MethodAttr == [callable |-> TRUE, value |-> 0]

\* PumpCommand.__init__ stores a retry count in the instance
PumpCommandRetry == IntAttr(1)

\* self.retry on a big command: the instance attribute set by the constructor
\* hides the method PumpBigCommand.retry of the class
RetryAttr(k) == PumpCommandRetry

\* single-frame commands: a set command and a get command
SimpleKinds == {"PowerPumpInit", "ReadPumpBGTargets"}

\* opcode of the command
CodeOf(k) ==
    CASE k = "PowerPump" -> H("5", "D")
      [] k = "DeliverPumpBolus" -> H("4", "2")
      [] k = "ReadPumpHistoryPage" -> H("8", "0")
      [] k = "PowerPumpInit" -> H("5", "D")
      [] k = "ReadPumpBGTargets" -> H("9", "F")
      [] OTHER -> None

PumpTimeout == 250
GetBigTimeout == 150

\* self.timeout: PumpCommand.__init__, lowered by PumpGetBigCommand.__init__
TimeoutOf(k) == IF IsGetBig(k) THEN GetBigTimeout ELSE PumpTimeout

\* self.report
ReportOf(k) ==
    IF k \in {"PowerPump", "ReadPumpBGTargets"} THEN "pump.json" ELSE None

\* self.parameters after reset
DefaultParameters == <<H("0", "0")>>

\* the attributes of the instance after construction
NewObj(k) ==
    [code |-> CodeOf(k), report |-> ReportOf(k), timeout |-> TimeoutOf(k),
     parameters |-> DefaultParameters,
     dataTX |-> <<>>, dataRX |-> <<>>, packetsTX |-> <<>>]

(***************************************************************************)
(* reset.                                                                  *)
(***************************************************************************)
\* Command.reset
CommandReset(o) ==
    [o EXCEPT !.response = None, !.dataTX = None, !.dataRX = None]

\* variant of PumpCommandReset: the parameters of the last run are kept
PumpCommandReset_keepParameters(o) ==
    [CommandReset(o) EXCEPT !.dataTX = <<>>, !.dataRX = <<>>,
                            !.packetsTX = <<>>, !.packetsRX = <<>>]

\* variant of PumpCommandReset: the received packets are kept
PumpCommandReset_keepPackets(o) ==
    [CommandReset(o) EXCEPT !.dataTX = <<>>, !.dataRX = <<>>,
                            !.packetsTX = <<>>,
                            !.parameters = DefaultParameters]

\* PumpCommand.reset
PumpCommandReset(o) ==
    [CommandReset(o) EXCEPT !.dataTX = <<>>, !.dataRX = <<>>,
                            !.packetsTX = <<>>, !.packetsRX = <<>>,
                            !.parameters = DefaultParameters]

\* the attributes reset assigns
Resettable ==
    [response |-> response, packetsRX |-> packetsRX,
     parameters |-> obj.parameters, dataTX |-> obj.dataTX,
     dataRX |-> obj.dataRX, packetsTX |-> obj.packetsTX]

\* self.reset()
Reset ==
    LET o == PumpCommandReset(Resettable) IN
    /\ response' = o.response
    /\ packetsRX' = o.packetsRX
    /\ obj' = [obj EXCEPT !.parameters = o.parameters, !.dataTX = o.dataTX,
                          !.dataRX = o.dataRX, !.packetsTX = o.packetsTX]

(***************************************************************************)
(* encode: the arguments a run is given and the range test.                *)
(***************************************************************************)
\* A bolus is given in hundredths of a unit (250 is 2.5 U); an RF session
\* length and a page number are integers.
Args(k) ==
    CASE k = "PowerPump" -> {10, 31}
      [] k = "DeliverPumpBolus" -> {250, 2600}
      [] k = "ReadPumpHistoryPage" -> {0, 36}

\* lib.withinRangeInt: TRUE when the value is accepted
WithinRangeInt(x, lo, hi) == lo <= x /\ x <= hi

\* int(x) of a quotient: truncation toward zero
TruncDiv(a, b) == IF a >= 0 THEN a \div b ELSE -((-a) \div b)

\* variant of BolusUnits: rounding down instead of toward zero
BolusUnits_floor(h) == (h * 10) \div 100

\* int(bolus * 10), for a bolus of h hundredths of a unit
BolusUnits(h) == TruncDiv(h * 10, 100)

PadLen == 64

\* [first] + 64 * ["00"]
\* variant of Block: one entry of padding less
Block_short(first) == <<first>> \o [k \in 1..(PadLen - 1) |-> H("0", "0")]

Block(first) == <<first>> \o [k \in 1..PadLen |-> H("0", "0")]

Rejected(old) == [err |-> "InvalidParameter", parameters |-> old]
Encoded(ps) == [err |-> "none", parameters |-> ps]

\* variant of PowerPumpEncode: a session of 31 minutes is accepted
PowerPumpEncode_range31(t, old) ==
    IF ~WithinRangeInt(t, 0, 31) THEN Rejected(old)
    ELSE Encoded([Block(H("0", "2")) EXCEPT ![2] = H("0", "1"),
                                            ![3] = Hexify(t)])

\* variant of PowerPumpEncode: the second entry is left at 00
PowerPumpEncode_noOne(t, old) ==
    IF ~WithinRangeInt(t, 0, 30) THEN Rejected(old)
    ELSE Encoded([Block(H("0", "2")) EXCEPT ![3] = Hexify(t)])

\* PowerPump.encode: the error raised (if any) and self.parameters
PowerPumpEncode(t, old) ==
    IF ~WithinRangeInt(t, 0, 30) THEN Rejected(old)
    ELSE Encoded([Block(H("0", "2")) EXCEPT ![2] = H("0", "1"),
                                            ![3] = Hexify(t)])

\* DeliverPumpBolus.encode
DeliverPumpBolusEncode(h, old) ==
    LET bolus == BolusUnits(h) IN
    IF ~WithinRangeInt(bolus, 0, 250) THEN Rejected(old)
    ELSE Encoded([Block(H("0", "1")) EXCEPT ![2] = Hexify(bolus)])

\* ReadPumpHistoryPage.encode
HistoryPageEncode(pg, old) ==
    IF ~WithinRangeInt(pg, 0, 35) THEN Rejected(old)
    ELSE Encoded([Block(H("0", "1")) EXCEPT ![2] = Hexify(pg)])

\* self.encode(*args)
EncodeOf(k, a, old) ==
    CASE k = "PowerPump" -> PowerPumpEncode(a, old)
      [] k = "DeliverPumpBolus" -> DeliverPumpBolusEncode(a, old)
      [] k = "ReadPumpHistoryPage" -> HistoryPageEncode(a, old)
      [] OTHER -> Encoded(old)

(***************************************************************************)
(* The pump: what it answers.                                              *)
(***************************************************************************)
NChunks == HistoryPageAckRepeat + 1
PageBytes == ChunkLen * NChunks

DataByte(j) == (37 * j + 11) % 256
GoodData == [j \in 1..(PageBytes - 2) |-> DataByte(j)]
GoodCRC == newComputeCRC16(GoodData)
GoodBytes == GoodData \o <<GoodCRC \div 256, GoodCRC % 256>>
BadBytes == [GoodBytes EXCEPT ![1] = (@ + 1) % 256]

Chunks(bytes) ==
    [k \in 1..NChunks |->
        [j \in 1..ChunkLen |-> Hexify(bytes[(k - 1) * ChunkLen + j])]]

NoPage == <<>>
Pages(k) == IF IsGetBig(k) THEN {Chunks(GoodBytes), Chunks(BadBytes)}
            ELSE {NoPage}

\* replies of the pump to a set command (status packets)
StatusReplies == {AckPkt, NakPkt}

\* reply of the pump to the core frame, an ACK or a NAK of a get command:
\* the next chunk of the page
ChunkReply(k, pg, pkts, rep) ==
    Pkt(CodeOf(k), pg[Len(pkts) - rep.Init + 1])

CoreReplies(k, pg, pkts, rep) ==
    IF IsSet(k) THEN StatusReplies ELSE {ChunkReply(k, pg, pkts, rep)}

\* outcome of one send + receive over the radio
Outcomes == {"ok", "RadioError", "InvalidPacket"}

\* packets.ToPumpPacket(self.code, self.parameters)
ToPumpPacket(c, ps) == [code |-> c, parameters |-> ps]

\* PumpCommand.send: the frame is stored, then handed to the stick
Sent(o) ==
    [o EXCEPT !.packetsTX = Append(@, ToPumpPacket(o.code, o.parameters))]

\* PumpCommand.receive: the bytes read are stored, then parsed
Received(o, out, pkt) ==
    [o EXCEPT !.dataRX = Append(@, [valid |-> out = "ok", pkt |-> pkt])]

\* self.send() then self.receive(): RadioError is raised by the stick in
\* send, InvalidPacket by the parser in receive
Exchanged(o, out, pkt) ==
    IF out = "RadioError" THEN Sent(o) ELSE Received(Sent(o), out, pkt)

\* what the log of frames keeps of an outcome
Class(e) ==
    IF e \in {"RadioError", "InvalidPacket"} THEN "radio"
    ELSE IF e = "ok" THEN "none" ELSE e

Frame(f, e) == [f |-> f, r |-> Class(e)]

(***************************************************************************)
(* Runs of the bound sub-commands (Command.run of Init, ACK, NAK).         *)
(***************************************************************************)
\* variant of SubIsSet: the reply to an Init command is not looked at
SubIsSet_never(name) == FALSE

\* the Init commands are set commands, ACK and NAK are plain pump commands
SubIsSet(name) == name = "Init"

\* Command.run of a sub-command: the error it raises and its packets["RX"]
SubRun(name, out, pkt) ==
    IF out # "ok" THEN [err |-> out, rx |-> <<>>]
    ELSE IF SubIsSet(name) /\ PumpSetDecodeRaises(<<pkt>>)
         THEN [err |-> "UnsuccessfulRadioCommand", rx |-> <<pkt>>]
         ELSE [err |-> "none", rx |-> <<pkt>>]

\* variant of Caught: UnsuccessfulRadioCommand is caught as well
Caught_unsuccessfulToo(e) ==
    e \in {"RadioError", "InvalidPacket", "UnsuccessfulRadioCommand"}

\* variant of Caught: InvalidPacket is not caught
Caught_radioOnly(e) == e = "RadioError"

\* except (errors.RadioError, errors.InvalidPacket)
Caught(e) == e \in {"RadioError", "InvalidPacket"}

\* variant of LoopRange: one iteration more
LoopRange_inclusive(count) == 0..count

\* for i in range(self.repeat["Init"]) / ["ACK"] / ["NAK"]
LoopRange(count) == 0..(count - 1)

NoSub == [Init |-> <<>>, ACK |-> <<>>, NAK |-> <<>>]

\* code of the sub-command bound under `name` by a command of class k
SubCode(k, name) ==
    CASE name = "ACK" -> H("0", "6")
      [] name = "NAK" -> H("1", "5")
      [] name = "Init" /\ k = "PowerPump" -> H("5", "D")
      [] name = "Init" /\ k = "DeliverPumpBolus" -> H("4", "2")
      [] name = "Init" /\ k = "ReadPumpHistoryPage" -> H("8", "0")

\* packets["TX"] of a sub-command after its run: reset empties the list and
\* sets the default parameters, encode does nothing, send appends the frame
SubSent(k, name) ==
    <<ToPumpPacket(SubCode(k, name), PumpCommandReset(NewObj(k)).parameters)>>

\* Reporter.add(report, path, {key: value}, True): the entry under the key
\* is written over
ReporterAdd(r, report, path, key, value) ==
    [e \in (DOMAIN r) \cup {<<report, path, key>>} |->
        IF e = <<report, path, key>> THEN value ELSE r[e]]

NoReports == <<>>

\* dict(zip(keys, values))
ZipDict(keys, values) ==
    LET l == IF Len(keys) < Len(values) THEN Len(keys) ELSE Len(values)
    IN  {<<keys[k], values[k]>> : k \in 1..l}

\* variant of StoreOf: no command adds anything to its report
StoreOf_nothing(k, r, resp) == r

\* self.store(): PowerPump.store, ReadPumpBGTargets.store, or Command.store
\* (which does nothing) for the classes that do not override it
StoreOf(k, r, resp) ==
    CASE k = "PowerPump" ->
            ReporterAdd(r, ReportOf(k), <<>>, "Power", "now")
      [] k = "ReadPumpBGTargets" ->
            ReporterAdd(ReporterAdd(r, ReportOf(k), <<"Units">>, "BG", resp[3]),
                        ReportOf(k), <<>>, "BG Targets",
                        ZipDict(resp[1], resp[2]))
      [] OTHER -> r

\* the "Radio TX/RX" command of the stick after construction (reset)
NewStick ==
    [dataTX |-> None, dataRX |-> None, timeoutStick |-> None,
     timeoutRadio |-> None, retry |-> None, repeat |-> None, delay |-> None,
     channelTX |-> None, channelRX |-> None]

NoHeap == <<>>

\* retry = 3 in the signature of WriteReadStickRadio.encode
DefaultRetry == 3
\* milliseconds the stick is given on top of the radio attempts
StickMargin == 500

\* variant of StickTimeout: the first attempt is not counted
StickTimeout_retriesOnly(r, timeout) == r * timeout + StickMargin

\* self.timeout["Stick"] = (retry + 1) * timeout + 500
StickTimeout(r, timeout) == (r + 1) * timeout + StickMargin

\* lib.pack(x, n = 4): x in 4 bytes, the most significant one first
Pack4(x) ==
    <<(x \div 16777216) % 256, (x \div 65536) % 256, (x \div 256) % 256,
      x % 256>>

\* Command.reset, then WriteReadStickRadio.reset
StickReset(st) == NewStick

\* WriteReadStickRadio.encode(data, timeout, retry), the other arguments at
\* their defaults (repeat = 1, delay = 0, channelTX = 0, channelRX = 0)
StickEncode(st, data, timeout, r) ==
    [st EXCEPT !.dataTX = data,
               !.timeoutStick = StickTimeout(r, timeout),
               !.timeoutRadio = Pack4(timeout),
               !.retry = r,
               !.repeat = 1,
               !.delay = Pack4(0),
               !.channelTX = 0,
               !.channelRX = 0]

\* one command instance on its own: the stick's command is as constructed,
\* no other instance exists
Elsewhere ==
    /\ stick = NewStick
    /\ heap = NoHeap
    /\ cur = None

\* variant of NextPhase: the postlude runs before the core
NextPhase_postludeFirst(p) ==
    CASE p = "reset" -> "encode"
      [] p = "encode" -> "prelude"
      [] p = "prelude" -> "postlude"
      [] p = "postlude" -> "execute"
      [] p = "execute" -> "decode"
      [] p = "decode" -> "store"
      [] p = "store" -> "return"

\* PumpBigCommand.run: the phase that follows phase p
NextPhase(p) ==
    CASE p = "reset" -> "encode"
      [] p = "encode" -> "prelude"
      [] p = "prelude" -> "execute"
      [] p = "execute" -> "postlude"
      [] p = "postlude" -> "decode"
      [] p = "decode" -> "store"
      [] p = "store" -> "return"

\* positions between two runs
Between == {"idle", "return", "failed"}

(***************************************************************************)
(* State after construction.                                               *)
(***************************************************************************)
NoPrev == [pc |-> "idle", response |-> None, rx |-> 0]

Init ==
    /\ kind \in Kinds
    /\ obj = NewObj(kind)
    /\ prev = NoPrev
    /\ repeat = RepeatOf(kind)
    /\ retry = RetryAttr(kind)
    /\ pc = "idle"
    /\ i = 0
    /\ n = 0
    /\ packetsRX = <<>>
    /\ subRX = NoSub
    /\ response = None
    /\ err = "none"
    /\ phases = <<>>
    /\ frames = <<>>
    /\ page = NoPage
    /\ arg = 0
    /\ caller = "none"
    /\ errArgs = <<>>
    /\ subTX = NoSub
    /\ reporter = NoReports
    /\ Elsewhere

\* raise e out of the run
Raise(e) == pc' = "failed" /\ err' = e

\* the phase p returned: run goes on with the next one
Leave(p) == pc' = NextPhase(p) /\ phases' = Append(phases, NextPhase(p))

\* what a run leaves behind, as the next run finds it
Left == [pc |-> pc, response |-> response, rx |-> Len(packetsRX)]

\* PumpBigCommand.run is called: self.reset(), then encode is entered
Run ==
    /\ pc \in Between
    /\ kind \in Kinds
    /\ \E a \in Args(kind), pg \in Pages(kind) :
        /\ arg' = a
        /\ page' = pg
    /\ Reset
    /\ prev' = Left
    /\ frames' = <<>>
    /\ errArgs' = <<>>
    /\ err' = "none"
    /\ i' = 0
    /\ n' = 0
    /\ caller' = "none"
    /\ pc' = NextPhase("reset")
    /\ phases' = <<"reset", NextPhase("reset")>>
    /\ UNCHANGED <<subTX, reporter, stick, heap, cur>>
    /\ UNCHANGED <<kind, repeat, retry, subRX>>

\* self.encode(*args) of a big command; then the prelude is entered
Encode ==
    /\ pc = "encode"
    /\ kind \in Kinds
    /\ LET e == EncodeOf(kind, arg, obj.parameters) IN
        /\ obj' = [obj EXCEPT !.parameters = e.parameters]
        /\ IF e.err # "none"
           THEN Raise(e.err) /\ UNCHANGED phases
           ELSE Leave("encode") /\ UNCHANGED err
    /\ UNCHANGED <<subTX, reporter, stick, heap, cur>>
    /\ UNCHANGED <<prev, kind, repeat, retry, i, n, packetsRX, subRX, response,
                   frames, page, arg, caller, errArgs>>

\* variant of PreludeAppend: the packet of the Init run is appended twice
PreludeAppend_twice(pkts, rx) == Append(Append(pkts, LastPkt(rx)), LastPkt(rx))

\* self.packets["RX"].append(self.cmds["Init"].packets["RX"][-1])
PreludeAppend(pkts, rx) == Append(pkts, LastPkt(rx))

\* PumpBigCommand.prelude, one iteration of its loop
Prelude ==
    /\ pc = "prelude"
    /\ kind # "PowerPump"
    /\ i \in LoopRange(repeat.Init)
    /\ \E out \in Outcomes, pkt \in StatusReplies :
        LET r == SubRun("Init", out, pkt) IN
        /\ subRX' = [subRX EXCEPT !.Init = r.rx]
        /\ frames' = Append(frames, Frame("Init", r.err))
        /\ IF r.err = "none"
           THEN /\ packetsRX' = PreludeAppend(packetsRX, r.rx)
                /\ i' = i + 1
                /\ UNCHANGED <<pc, err>>
           ELSE /\ Raise(r.err)
                /\ UNCHANGED <<packetsRX, i>>
    /\ UNCHANGED <<obj, prev>>
    /\ subTX' = [subTX EXCEPT !.Init = SubSent(kind, "Init")]
    /\ UNCHANGED <<reporter, stick, heap, cur>>
    /\ UNCHANGED <<kind, repeat, retry, n, response, phases, page, arg, caller,
                   errArgs>>

\* PumpBigCommand.prelude returns; run enters execute
PreludeDone ==
    /\ pc = "prelude"
    /\ kind # "PowerPump"
    /\ i \notin LoopRange(repeat.Init)
    /\ Leave("prelude")
    /\ i' = 0
    /\ UNCHANGED <<obj, prev>>
    /\ UNCHANGED <<subTX, reporter, stick, heap, cur>>
    /\ UNCHANGED <<kind, repeat, retry, n, packetsRX, subRX, response, err,
                   frames, page, arg, caller, errArgs>>

\* PowerPump.prelude, one iteration of its loop
PowerPrelude ==
    /\ pc = "prelude"
    /\ kind = "PowerPump"
    /\ i \in LoopRange(repeat.Init)
    /\ \E out \in Outcomes, pkt \in StatusReplies :
        LET r == SubRun("Init", out, pkt) IN
        /\ subRX' = [subRX EXCEPT !.Init = r.rx]
        /\ frames' = Append(frames, Frame("Init", r.err))
        /\ IF r.err = "none"
           THEN /\ Leave("prelude")
                /\ i' = 0
                /\ UNCHANGED err
           ELSE IF Caught(r.err)
           THEN /\ i' = i + 1
                /\ UNCHANGED <<pc, err, phases>>
           ELSE /\ Raise(r.err)
                /\ UNCHANGED <<i, phases>>
    /\ UNCHANGED <<obj, prev>>
    /\ subTX' = [subTX EXCEPT !.Init = SubSent(kind, "Init")]
    /\ UNCHANGED <<reporter, stick, heap, cur>>
    /\ UNCHANGED <<kind, repeat, retry, n, packetsRX, response, page, arg,
                   caller, errArgs>>

\* variant of PowerPreludeExhausted: the prelude returns instead of raising
PowerPreludeExhausted_returns ==
    /\ pc = "prelude"
    /\ kind = "PowerPump"
    /\ i \notin LoopRange(repeat.Init)
    /\ Leave("prelude")
    /\ UNCHANGED <<obj, prev>>
    /\ UNCHANGED <<subTX, reporter, stick, heap, cur>>
    /\ UNCHANGED <<kind, repeat, retry, i, n, packetsRX, subRX, response, err,
                   frames, page, arg, caller, errArgs>>

\* PowerPump.prelude: the loop ended without a successful Init
PowerPreludeExhausted ==
    /\ pc = "prelude"
    /\ kind = "PowerPump"
    /\ i \notin LoopRange(repeat.Init)
    /\ Raise("NoPump")
    /\ UNCHANGED <<obj, prev>>
    /\ UNCHANGED <<subTX, reporter, stick, heap, cur>>
    /\ UNCHANGED <<kind, repeat, retry, i, n, packetsRX, subRX, response,
                   phases, frames, page, arg, caller, errArgs>>

\* variant of CallRetry: the failed phase is entered again
CallRetry_again(from) ==
    /\ pc' = from
    /\ UNCHANGED <<err, n, caller>>

\* self.retry() in an except clause: the attribute is looked up and called
CallRetry(from) ==
    IF retry.callable
    THEN /\ pc' = "retry"
         /\ n' = 0
         /\ caller' = from
         /\ UNCHANGED err
    ELSE /\ Raise("TypeError")
         /\ UNCHANGED <<n, caller>>

\* PumpBigCommand.execute: send and receive the command's own frame
Execute ==
    /\ pc = "execute"
    /\ \E out \in Outcomes, pkt \in CoreReplies(kind, page, packetsRX, repeat) :
        /\ frames' = Append(frames, Frame("Core", out))
        /\ obj' = Exchanged(obj, out, pkt)
        /\ IF out = "ok"
           THEN /\ packetsRX' = Append(packetsRX, pkt)
                /\ Leave("execute")
                /\ i' = 0
                /\ UNCHANGED <<err, n, caller>>
           ELSE /\ IF repeat.NAK # 0
                   THEN CallRetry("execute")
                   ELSE Raise(out) /\ UNCHANGED <<n, caller>>
                /\ UNCHANGED <<packetsRX, i, phases>>
    /\ UNCHANGED <<subTX, reporter, stick, heap, cur>>
    /\ UNCHANGED <<prev, kind, repeat, retry, subRX, response, page, arg, errArgs>>

\* PumpBigCommand.postlude, one iteration of its loop
Postlude ==
    /\ pc = "postlude"
    /\ i \in LoopRange(repeat.ACK)
    /\ \E out \in Outcomes :
        LET r == SubRun("ACK", out, ChunkReply(kind, page, packetsRX, repeat))
        IN
        /\ subRX' = [subRX EXCEPT !.ACK = r.rx]
        /\ frames' = Append(frames, Frame("ACK", r.err))
        /\ IF r.err = "none"
           THEN /\ packetsRX' = Append(packetsRX, LastPkt(r.rx))
                /\ i' = i + 1
                /\ UNCHANGED <<pc, err, n, caller>>
           ELSE /\ IF repeat.NAK # 0
                   THEN CallRetry("postlude")
                   ELSE Raise(r.err) /\ UNCHANGED <<n, caller>>
                /\ UNCHANGED <<packetsRX, i>>
    /\ UNCHANGED <<obj, prev>>
    /\ subTX' = [subTX EXCEPT !.ACK = SubSent(kind, "ACK")]
    /\ UNCHANGED <<reporter, stick, heap, cur>>
    /\ UNCHANGED <<kind, repeat, retry, response, phases, page, arg, errArgs>>

\* PumpBigCommand.postlude returns; run enters decode
PostludeDone ==
    /\ pc = "postlude"
    /\ i \notin LoopRange(repeat.ACK)
    /\ Leave("postlude")
    /\ UNCHANGED <<obj, prev>>
    /\ UNCHANGED <<subTX, reporter, stick, heap, cur>>
    /\ UNCHANGED <<kind, repeat, retry, i, n, packetsRX, subRX, response, err,
                   frames, page, arg, caller, errArgs>>

\* variant of Decode: the error of decode is noted and the run goes on
Decode_storeAnyway ==
    /\ pc = "decode"
    /\ err' = IF IsSet(kind) /\ PumpSetDecodeRaises(packetsRX)
              THEN "UnsuccessfulRadioCommand" ELSE err
    /\ Leave("decode")
    /\ UNCHANGED <<obj, prev, kind, repeat, retry, i, n, packetsRX, subRX,
                   response, frames, page, arg, caller, errArgs, subTX,
                   reporter, stick, heap, cur>>

\* decode of the command (PumpSetCommand.decode, ReadPumpHistoryPage.decode)
Decode ==
    /\ pc = "decode"
    /\ IF IsSet(kind)
       THEN /\ IF PumpSetDecodeRaises(packetsRX)
               THEN Raise("UnsuccessfulRadioCommand") /\ UNCHANGED phases
               ELSE Leave("decode") /\ UNCHANGED err
            /\ UNCHANGED <<response, errArgs>>
       ELSE \E d \in {HistoryPageDecode(packetsRX, repeat.Init, response)} :
            /\ response' = d.response
            /\ IF d.err # "none"
               THEN /\ Raise(d.err)
                    /\ errArgs' = <<d.expected, d.computed>>
                    /\ UNCHANGED phases
               ELSE /\ Leave("decode")
                    /\ UNCHANGED <<err, errArgs>>
    /\ UNCHANGED <<obj, prev>>
    /\ UNCHANGED <<subTX, reporter, stick, heap, cur>>
    /\ UNCHANGED <<kind, repeat, retry, i, n, packetsRX, subRX, frames, page,
                   arg, caller>>

\* variant of Store: store does not return
Store_hangs ==
    /\ pc = "store"
    /\ UNCHANGED vars

\* store, then run returns the response
Store ==
    /\ pc = "store"
    /\ Leave("store")
    /\ UNCHANGED <<obj, prev>>
    /\ reporter' = StoreOf(kind, reporter, response)
    /\ UNCHANGED <<subTX, stick, heap, cur>>
    /\ UNCHANGED <<kind, repeat, retry, i, n, packetsRX, subRX, response, err,
                   frames, page, arg, caller, errArgs>>

Next ==
    \/ Run
    \/ Encode
    \/ Prelude
    \/ PreludeDone
    \/ PowerPrelude
    \/ PowerPreludeExhausted
    \/ Execute
    \/ Postlude
    \/ PostludeDone
    \/ Decode
    \/ Store

Spec == Init /\ [][Next]_vars

\* the steps of a run under way: a run is one sequential call, so it goes on
\* as long as each call it makes (radio exchange, reporter) returns
InRun ==
    \/ Encode
    \/ Prelude
    \/ PreludeDone
    \/ PowerPrelude
    \/ PowerPreludeExhausted
    \/ Execute
    \/ Postlude
    \/ PostludeDone
    \/ Decode
    \/ Store

\* every step of a run moves its position or the index of its loop
SpecLive == Init /\ [][Next]_vars /\ WF_<<pc, i>>(InRun)

(***************************************************************************)
(* The retry sub-protocol: the body of the method PumpBigCommand.retry,     *)
(* entered on its own (PumpBigCommand.retry(cmd)) in the state a history   *)
(* page read is in when its core exchange or one of its ACK exchanges has  *)
(* just failed.  Within a run, self.retry() does not reach this method:    *)
(* see RetryAttr and CallRetry.                                            *)
(***************************************************************************)
\* variant of RetryAppend: the packet of the NAK run is dropped
RetryAppend_none(pkts, rx) == pkts

\* self.packets["RX"].append(self.cmds["NAK"].packets["RX"][-1])
RetryAppend(pkts, rx) == Append(pkts, LastPkt(rx))

\* PumpBigCommand.retry, one iteration of its loop
Retry ==
    /\ pc = "retry"
    /\ n \in LoopRange(repeat.NAK)
    /\ \E out \in Outcomes :
        LET r == SubRun("NAK", out, ChunkReply(kind, page, packetsRX, repeat))
        IN
        /\ subRX' = [subRX EXCEPT !.NAK = r.rx]
        /\ frames' = Append(frames, Frame("NAK", r.err))
        /\ IF r.err = "none"
           THEN /\ packetsRX' = RetryAppend(packetsRX, r.rx)
                /\ IF caller = "execute"
                   THEN Leave("execute") /\ i' = 0
                   ELSE pc' = caller /\ i' = i + 1 /\ UNCHANGED phases
                /\ UNCHANGED <<n, err>>
           ELSE IF Caught(r.err)
           THEN /\ n' = n + 1
                /\ UNCHANGED <<pc, err, packetsRX, i, phases>>
           ELSE /\ Raise(r.err)
                /\ UNCHANGED <<n, packetsRX, i, phases>>
    /\ UNCHANGED <<obj, prev>>
    /\ subTX' = [subTX EXCEPT !.NAK = SubSent(kind, "NAK")]
    /\ UNCHANGED <<reporter, stick, heap, cur>>
    /\ UNCHANGED <<kind, repeat, retry, response, page, arg, caller, errArgs>>

\* PumpBigCommand.retry: the loop ended without a successful NAK
RetryExhausted ==
    /\ pc = "retry"
    /\ n \notin LoopRange(repeat.NAK)
    /\ Raise("UnsuccessfulRadioCommand")
    /\ UNCHANGED <<obj, prev>>
    /\ UNCHANGED <<subTX, reporter, stick, heap, cur>>
    /\ UNCHANGED <<kind, repeat, retry, i, n, packetsRX, subRX, response,
                   phases, frames, page, arg, caller, errArgs>>

\* NAK budgets retry is entered with
NakBudgets == (1..MaxNak) \cup {GetBigNakRepeat}

\* the frames of a run whose exchange j failed (0: core, j > 0: j-th ACK)
FramesUpTo(j) ==
    <<Frame("Init", "none")>>
    \o (IF j = 0 THEN <<Frame("Core", "RadioError")>>
        ELSE <<Frame("Core", "none")>>
             \o [k \in 1..(j - 1) |-> Frame("ACK", "none")]
             \o <<Frame("ACK", "RadioError")>>)

\* retry is entered: a history page read whose exchange j failed
InitRetry ==
    /\ kind = "ReadPumpHistoryPage"
    /\ prev = NoPrev
    /\ \E N \in NakBudgets : repeat = [RepeatOf(kind) EXCEPT !.NAK = N]
    /\ retry = RetryAttr(kind)
    /\ page \in Pages(kind)
    /\ \E j \in 0..repeat.ACK :
        /\ packetsRX = <<AckPkt>> \o [k \in 1..j |-> Pkt(CodeOf(kind), page[k])]
        /\ obj = LET e == HistoryPageEncode(0, DefaultParameters)
                     o == [NewObj(kind) EXCEPT !.parameters = e.parameters]
                 IN  IF j = 0 THEN Exchanged(o, "RadioError", NoPage)
                     ELSE Exchanged(o, "ok", Pkt(CodeOf(kind), page[1]))
        /\ frames = FramesUpTo(j)
        /\ i = IF j = 0 THEN 0 ELSE j - 1
        /\ caller = IF j = 0 THEN "execute" ELSE "postlude"
        /\ phases = <<"reset", "encode", "prelude", "execute">>
                    \o (IF j = 0 THEN <<>> ELSE <<"postlude">>)
    /\ pc = "retry"
    /\ n = 0
    /\ subRX = [NoSub EXCEPT !.Init = <<AckPkt>>]
    /\ response = None
    /\ err = "none"
    /\ arg = 0
    /\ errArgs = <<>>
    /\ subTX = [Init |-> SubSent(kind, "Init"),
                ACK |-> IF caller = "postlude" THEN SubSent(kind, "ACK")
                        ELSE <<>>,
                NAK |-> <<>>]
    /\ reporter = NoReports
    /\ Elsewhere

NextRetry ==
    \/ Retry
    \/ RetryExhausted

SpecRetry == InitRetry /\ [][NextRetry]_vars

(***************************************************************************)
(* The decode functions on their own, applied to received-packet sequences *)
(* drawn from a small set of packets.                                      *)
(***************************************************************************)
DecodePackets ==
    {AckPkt, NakPkt,
     Pkt(H("0", "6"), <<H("0", "1")>>),
     Pkt(H("0", "6"), <<>>),
     Pkt(H("0", "6"), <<H("0", "0"), H("0", "0")>>),
     Pkt(H("8", "0"), <<H("0", "A"), H("F", "F")>>)}

PacketSeqs == UNION {[1..l -> DecodePackets] : l \in 0..MaxPkts}

\* the packet that carries the CRC of the payload received after the prelude
TrailerPkt(pkts, P) ==
    LET crc == newComputeCRC16(PumpGetBigDecode(pkts, P)[1])
    IN  Pkt(H("8", "0"), <<Hexify(crc \div 256), Hexify(crc % 256)>>)

DecodeKinds == {"PumpSetCommand", "PumpGetBigCommand", "ReadPumpHistoryPage"}

InitDecode ==
    /\ kind \in DecodeKinds
    /\ obj = NewObj(kind)
    /\ prev = NoPrev
    /\ \E P \in 0..MaxP : repeat = [PumpBigRepeat EXCEPT !.Init = P]
    /\ \E s \in PacketSeqs :
        packetsRX \in {s, Append(s, TrailerPkt(s, repeat.Init))}
    /\ retry = PumpCommandRetry
    /\ pc = "decode"
    /\ i = 0
    /\ n = 0
    /\ subRX = NoSub
    /\ response = None
    /\ err = "none"
    /\ phases = <<>>
    /\ frames = <<>>
    /\ page = NoPage
    /\ arg = 0
    /\ caller = "none"
    /\ errArgs = <<>>
    /\ subTX = NoSub
    /\ reporter = NoReports
    /\ Elsewhere

\* PumpSetCommand.decode
SetDecode ==
    /\ pc = "decode"
    /\ kind = "PumpSetCommand"
    /\ packetsRX # <<>>
    /\ pc' = "decoded"
    /\ err' = IF PumpSetDecodeRaises(packetsRX)
              THEN "UnsuccessfulRadioCommand" ELSE "none"
    /\ UNCHANGED <<obj, prev>>
    /\ UNCHANGED <<subTX, reporter, stick, heap, cur>>
    /\ UNCHANGED <<kind, repeat, retry, i, n, packetsRX, subRX, response,
                   phases, frames, page, arg, caller, errArgs>>

\* PumpGetBigCommand.decode
GetBigDecode ==
    /\ pc = "decode"
    /\ kind = "PumpGetBigCommand"
    /\ pc' = "decoded"
    /\ response' = PumpGetBigDecode(packetsRX, repeat.Init)
    /\ UNCHANGED <<obj, prev>>
    /\ UNCHANGED <<subTX, reporter, stick, heap, cur>>
    /\ UNCHANGED <<kind, repeat, retry, i, n, packetsRX, subRX, err,
                   phases, frames, page, arg, caller, errArgs>>

\* ReadPumpHistoryPage.decode
HistoryDecode ==
    /\ pc = "decode"
    /\ kind = "ReadPumpHistoryPage"
    /\ LET d == HistoryPageDecode(packetsRX, repeat.Init, response) IN
        /\ response' = d.response
        /\ err' = d.err
        /\ errArgs' = IF d.err = "none" THEN <<>>
                      ELSE <<d.expected, d.computed>>
    /\ pc' = "decoded"
    /\ UNCHANGED <<obj, prev>>
    /\ UNCHANGED <<subTX, reporter, stick, heap, cur>>
    /\ UNCHANGED <<kind, repeat, retry, i, n, packetsRX, subRX,
                   phases, frames, page, arg, caller>>

NextDecode ==
    \/ SetDecode
    \/ GetBigDecode
    \/ HistoryDecode

SpecDecode == InitDecode /\ [][NextDecode]_vars

(***************************************************************************)
(* Single-frame commands: Command.run of a pump set command (PowerPumpInit) *)
(* and of a pump get command (ReadPumpBGTargets).                          *)
(***************************************************************************)
\* pump.basal.time: minutes per time block
BasalTime == 30

\* a reply to a get command: the packet also carries the size of its payload
SizedPkt(c, bs) ==
    [code |-> c, payload |-> [k \in 1..Len(bs) |-> Hexify(bs[k])],
     size |-> Len(bs)]

\* BG targets the pump answers with: units byte, then (time, low, high)
BGTargetPayloads ==
    {<<1, 0, 90, 110>>,
     <<2, 0, 55, 65, 16, 60, 70>>,
     <<0, 0, 90, 110>>,
     <<0>>}

SimpleReplies(k) ==
    IF k = "ReadPumpBGTargets"
    THEN {SizedPkt(CodeOf(k), bs) : bs \in BGTargetPayloads}
    ELSE StatusReplies

\* PumpGetCommand.decode: [payload, size] of the last packet
PumpGetDecode(pkts) ==
    LET pkt == LastPkt(pkts) IN <<Dehexify(pkt.payload), pkt.size>>

\* "{0:02}".format(x)
Dec2(x) == <<HexDigits[(x \div 10) + 1], HexDigits[(x % 10) + 1]>>

\* "{0:02}".format(t / 60) + ":" + "{0:02}".format(t % 60)
FormatHM(t) == Dec2(t \div 60) \o <<":">> \o Dec2(t % 60)

\* a value divided by 10 ** m
Scaled(v, m) == [num |-> v, den |-> IF m = 0 THEN 1 ELSE 10]

\* self.response of ReadPumpBGTargets: the values under the keys "Times",
\* "Targets" and "Units", in this order
BGResponse(times, targets, units) == <<times, targets, units>>

\* ReadPumpBGTargets.decode: the error raised (if any) and self.response.
\* The response is initialized first; m is bound only for units byte 1 or 2.
BGTargetsDecode(pkts) ==
    LET p == PumpGetDecode(pkts)
        payload == p[1]
        size == p[2]
        bound == payload[1] \in {1, 2}
        m == IF payload[1] = 1 THEN 0 ELSE 1
        units == IF payload[1] = 1 THEN "mg/dL"
                 ELSE IF payload[1] = 2 THEN "mmol/L" ELSE None
        cnt == (size - 1) \div 3
        time(k) == FormatHM(payload[3 * (k - 1) + 2] * BasalTime)
        target(k) == <<Scaled(payload[3 * (k - 1) + 3], m),
                       Scaled(payload[3 * (k - 1) + 4], m)>>
    IN  IF cnt >= 1 /\ ~bound
        THEN [err |-> "UnboundLocalError",
              response |-> BGResponse(<<time(1)>>, <<>>, units)]
        ELSE [err |-> "none",
              response |-> BGResponse([k \in 1..cnt |-> time(k)],
                                      [k \in 1..cnt |-> target(k)],
                                      units)]

\* variant of SimpleNextPhase: decode is skipped
SimpleNextPhase_noDecode(p) ==
    CASE p = "reset" -> "encode"
      [] p = "encode" -> "send"
      [] p = "send" -> "receive"
      [] p = "receive" -> "store"
      [] p = "store" -> "return"

\* Command.run and Command.execute: the step that follows step p
SimpleNextPhase(p) ==
    CASE p = "reset" -> "encode"
      [] p = "encode" -> "send"
      [] p = "send" -> "receive"
      [] p = "receive" -> "decode"
      [] p = "decode" -> "store"
      [] p = "store" -> "return"

SimpleLeave(p) ==
    pc' = SimpleNextPhase(p) /\ phases' = Append(phases, SimpleNextPhase(p))

NoRepeat == [Init |-> 0, ACK |-> 0, NAK |-> 0]

InitSimple ==
    /\ kind \in SimpleKinds
    /\ obj = NewObj(kind)
    /\ prev = NoPrev
    /\ repeat = NoRepeat
    /\ retry = PumpCommandRetry
    /\ pc = "idle"
    /\ i = 0
    /\ n = 0
    /\ packetsRX = <<>>
    /\ subRX = NoSub
    /\ response = None
    /\ err = "none"
    /\ phases = <<>>
    /\ frames = <<>>
    /\ page = NoPage
    /\ arg = 0
    /\ caller = "none"
    /\ errArgs = <<>>
    /\ subTX = NoSub
    /\ reporter = NoReports
    /\ Elsewhere

\* Command.run is called: self.reset(), then encode is entered
SimpleRun ==
    /\ pc \in Between
    /\ kind \in SimpleKinds
    /\ Reset
    /\ prev' = Left
    /\ frames' = <<>>
    /\ err' = "none"
    /\ pc' = SimpleNextPhase("reset")
    /\ phases' = <<"reset", SimpleNextPhase("reset")>>
    /\ UNCHANGED <<subTX, reporter, stick, heap, cur>>
    /\ UNCHANGED <<kind, repeat, retry, i, n, subRX, page, arg, caller,
                   errArgs>>

\* Command.encode: nothing to encode
SimpleEncode ==
    /\ pc = "encode"
    /\ kind \in SimpleKinds
    /\ obj' = [obj EXCEPT !.parameters =
                              EncodeOf(kind, arg, obj.parameters).parameters]
    /\ SimpleLeave("encode")
    /\ UNCHANGED <<subTX, reporter, stick, heap, cur>>
    /\ UNCHANGED <<prev, kind, repeat, retry, i, n, packetsRX, subRX,
                   response, err, frames, page, arg, caller, errArgs>>

\* PumpCommand.send: the frame is built, stored and given to the stick
SimpleSend ==
    /\ pc = "send"
    /\ obj' = Sent(obj)
    /\ \E out \in {"ok", "RadioError"} :
        /\ frames' = Append(frames, Frame("Core", out))
        /\ IF out = "ok"
           THEN SimpleLeave("send") /\ UNCHANGED err
           ELSE Raise(out) /\ UNCHANGED phases
    /\ UNCHANGED <<subTX, reporter, stick, heap, cur>>
    /\ UNCHANGED <<prev, kind, repeat, retry, i, n, packetsRX, subRX,
                   response, page, arg, caller, errArgs>>

\* PumpCommand.receive: the bytes read are stored and parsed into a packet
SimpleReceive ==
    /\ pc = "receive"
    /\ \E out \in {"ok", "InvalidPacket"}, pkt \in SimpleReplies(kind) :
        /\ obj' = Received(obj, out, pkt)
        /\ IF out = "ok"
           THEN /\ packetsRX' = Append(packetsRX, pkt)
                /\ SimpleLeave("receive")
                /\ UNCHANGED err
           ELSE /\ Raise(out)
                /\ UNCHANGED <<packetsRX, phases>>
    /\ UNCHANGED <<subTX, reporter, stick, heap, cur>>
    /\ UNCHANGED <<prev, kind, repeat, retry, i, n, subRX, response, frames,
                   page, arg, caller, errArgs>>

\* self.decode(): PumpSetCommand.decode or ReadPumpBGTargets.decode
SimpleDecode ==
    /\ pc = "decode"
    /\ kind \in SimpleKinds
    /\ LET d == IF kind = "ReadPumpBGTargets" THEN BGTargetsDecode(packetsRX)
                ELSE [err |-> IF PumpSetDecodeRaises(packetsRX)
                              THEN "UnsuccessfulRadioCommand" ELSE "none",
                      response |-> response]
       IN  /\ response' = d.response
           /\ IF d.err # "none"
              THEN Raise(d.err) /\ UNCHANGED phases
              ELSE SimpleLeave("decode") /\ UNCHANGED err
    /\ UNCHANGED <<obj, prev>>
    /\ UNCHANGED <<subTX, reporter, stick, heap, cur>>
    /\ UNCHANGED <<kind, repeat, retry, i, n, packetsRX, subRX, frames, page,
                   arg, caller, errArgs>>

\* self.store(), then run returns the response
SimpleStore ==
    /\ pc = "store"
    /\ kind \in SimpleKinds
    /\ SimpleLeave("store")
    /\ UNCHANGED <<obj, prev>>
    /\ reporter' = StoreOf(kind, reporter, response)
    /\ UNCHANGED <<subTX, stick, heap, cur>>
    /\ UNCHANGED <<kind, repeat, retry, i, n, packetsRX, subRX, response, err,
                   frames, page, arg, caller, errArgs>>

NextSimple ==
    \/ SimpleRun
    \/ SimpleEncode
    \/ SimpleSend
    \/ SimpleReceive
    \/ SimpleDecode
    \/ SimpleStore

SpecSimple == InitSimple /\ [][NextSimple]_vars

(***************************************************************************)
(* The encode functions on their own, applied after reset to arguments     *)
(* inside and outside the supported ranges.                                *)
(***************************************************************************)
\* largest RF session length and history page number given to encode
MaxT == 37
\* largest bolus given to encode, in hundredths of a unit
MaxCenti == 2620

EncodeArgs(k) ==
    IF k = "DeliverPumpBolus" THEN (-30)..MaxCenti ELSE (-2)..MaxT

InitEncode ==
    /\ kind \in Kinds
    /\ arg \in EncodeArgs(kind)
    /\ obj = NewObj(kind)
    /\ prev = NoPrev
    /\ repeat = RepeatOf(kind)
    /\ retry = RetryAttr(kind)
    /\ pc = "encode"
    /\ phases = <<"reset", "encode">>
    /\ i = 0
    /\ n = 0
    /\ packetsRX = <<>>
    /\ subRX = NoSub
    /\ response = None
    /\ err = "none"
    /\ frames = <<>>
    /\ page = NoPage
    /\ caller = "none"
    /\ errArgs = <<>>
    /\ subTX = NoSub
    /\ reporter = NoReports
    /\ Elsewhere

NextEncode == Encode

SpecEncode == InitEncode /\ [][NextEncode]_vars

(***************************************************************************)
(* reset on its own, called twice on an instance in any state a run can    *)
(* leave it in.                                                            *)
(***************************************************************************)
\* states of the attributes a run can leave behind
UsedObjs(k) ==
    {[NewObj(k) EXCEPT !.parameters = ps, !.dataRX = rx, !.packetsTX = tx] :
        ps \in {DefaultParameters, PowerPumpEncode(10, <<>>).parameters},
        rx \in {<<>>, <<[valid |-> TRUE, pkt |-> AckPkt]>>},
        tx \in {<<>>, <<ToPumpPacket(CodeOf(k), DefaultParameters)>>}}

InitReset ==
    /\ kind \in Kinds \cup SimpleKinds
    /\ obj \in UsedObjs(kind)
    /\ repeat = IF kind \in Kinds THEN RepeatOf(kind) ELSE NoRepeat
    /\ retry = PumpCommandRetry
    /\ packetsRX \in {<<>>, <<AckPkt>>, <<AckPkt, NakPkt>>}
    /\ response \in {None, <<1, 2>>}
    /\ subRX \in {NoSub, [NoSub EXCEPT !.Init = <<AckPkt>>]}
    /\ prev = [pc |-> "return", response |-> response, rx |-> Len(packetsRX)]
    /\ pc = "used"
    /\ i = 0
    /\ n = 0
    /\ err = "none"
    /\ phases = <<>>
    /\ frames = <<>>
    /\ page = NoPage
    /\ arg = 0
    /\ caller = "none"
    /\ errArgs = <<>>
    /\ subTX = NoSub
    /\ reporter = NoReports
    /\ Elsewhere

\* cmd.reset(), a first and a second time
ResetCall ==
    /\ pc \in {"used", "reset once"}
    /\ Reset
    /\ pc' = IF pc = "used" THEN "reset once" ELSE "reset twice"
    /\ UNCHANGED <<subTX, reporter, stick, heap, cur>>
    /\ UNCHANGED <<prev, kind, repeat, retry, i, n, subRX, err, phases, frames,
                   page, arg, caller, errArgs>>

NextReset == ResetCall

SpecReset == InitReset /\ [][NextReset]_vars

(***************************************************************************)
(* encode of the stick's radio command on its own: called with a retry     *)
(* count and a timeout of its caller's choosing, or the way PumpCommand.send *)
(* calls it (the frame and the command's timeout, the retry count left at   *)
(* its default).                                                            *)
(***************************************************************************)
\* largest retry count given to encode
MaxRetry == 5
\* largest timeout given to encode, besides the ones of the pump commands
MaxTimeout == 12

StickArgs ==
    (0..MaxRetry) \X ((0..MaxTimeout) \cup {PumpTimeout, GetBigTimeout})

InitStick ==
    /\ kind \in Kinds \cup SimpleKinds
    /\ obj = NewObj(kind)
    /\ prev = NoPrev
    /\ repeat = IF kind \in Kinds THEN RepeatOf(kind) ELSE NoRepeat
    /\ retry = PumpCommandRetry
    /\ arg \in StickArgs
    /\ pc = "call"
    /\ i = 0
    /\ n = 0
    /\ packetsRX = <<>>
    /\ subRX = NoSub
    /\ response = None
    /\ err = "none"
    /\ phases = <<>>
    /\ frames = <<>>
    /\ page = NoPage
    /\ caller = "none"
    /\ errArgs = <<>>
    /\ subTX = NoSub
    /\ reporter = NoReports
    /\ Elsewhere

\* cmd.reset(); cmd.encode(data, timeout, retry) on the stick's command
RadioEncode ==
    /\ pc = "call"
    /\ stick' = StickEncode(StickReset(stick), <<>>, arg[2], arg[1])
    /\ caller' = "stick"
    /\ pc' = "encoded"
    /\ UNCHANGED <<obj, prev, kind, repeat, retry, i, n, packetsRX, subRX,
                   response, err, phases, frames, page, arg, errArgs, subTX,
                   reporter, heap, cur>>

\* PumpCommand.send up to the encode of the stick's command:
\* self.stick.commands["Radio TX/RX"].run(pkt.bytes["Encoded"], self.timeout)
PumpRadioEncode ==
    /\ pc = "call"
    /\ obj' = Sent(obj)
    /\ stick' = StickEncode(StickReset(stick), LastPkt(Sent(obj).packetsTX),
                            obj.timeout, DefaultRetry)
    /\ arg' = <<DefaultRetry, obj.timeout>>
    /\ caller' = "pump"
    /\ pc' = "encoded"
    /\ UNCHANGED <<prev, kind, repeat, retry, i, n, packetsRX, subRX,
                   response, err, phases, frames, page, errArgs, subTX,
                   reporter, heap, cur>>

NextStick ==
    \/ RadioEncode
    \/ PumpRadioEncode

SpecStick == InitStick /\ [][NextStick]_vars

(***************************************************************************)
(* Two command instances bound to one pump, hence to one stick.  The lists *)
(* of the instances are objects with an address, so that two attributes    *)
(* holding the same list can be told from two attributes holding equal     *)
(* lists.                                                                  *)
(***************************************************************************)
\* runs called, all instances together
MaxRuns == 2

Tops == {"A", "B"}
Names == {"self", "Init", "ACK", "NAK"}
Ids == Tops \X Names
IdSeq == <<<<"A", "self">>, <<"A", "Init">>, <<"A", "ACK">>, <<"A", "NAK">>,
           <<"B", "self">>, <<"B", "Init">>, <<"B", "ACK">>, <<"B", "NAK">>>>

\* the instance X and the sub-commands X created in its constructor
Family(X) == {X} \X Names

Items(s) == {s[k] : k \in 1..Len(s)}

\* variant of NewList: a list expression yields the list already there
NewList_same(used) == 1

\* an object is created ([] in reset, the packet in send, the slice in the
\* stick's receive): no attribute holds it yet
NewList(used) ==
    CHOOSE a \in 1..(Cardinality(used) + 1) :
        a \notin used /\ \A b \in 1..(a - 1) : b \in used

RECURSIVE FreshLists(_, _)
FreshLists(used, k) ==
    IF k = 0 THEN <<>>
    ELSE LET a == NewList(used) IN <<a>> \o FreshLists(used \cup {a}, k - 1)

\* the objects given and, besides, the objects at the addresses as holding v
Store4(lists, as, v) ==
    [a \in (DOMAIN lists) \cup Items(as) |->
        IF a \in Items(as) THEN v ELSE lists[a]]

\* PumpCommand.reset of the instance id: response, data, packets, parameters
PumpResetTwo(hp, id) ==
    LET as == FreshLists(DOMAIN hp.list, 4)
    IN  [list |-> Store4(hp.list, as, <<>>),
         inst |-> [hp.inst EXCEPT ![id].response = None,
                                  ![id].dataTX = as[1],
                                  ![id].dataRX = as[2],
                                  ![id].packetsTX = as[3],
                                  ![id].packetsRX = as[4],
                                  ![id].parameters = DefaultParameters]]

\* the lists an instance holds in data and packets
Roots(hp, ids) ==
    UNION {{hp.inst[id].dataTX, hp.inst[id].dataRX,
            hp.inst[id].packetsTX, hp.inst[id].packetsRX} : id \in ids}

\* the objects reached from the instances ids: the lists they hold, the
\* lists of bytes held in data["RX"] and the packets held in packets["TX"]
Reach(hp, ids) ==
    Roots(hp, ids)
    \cup UNION {Items(hp.list[hp.inst[id].dataRX]) : id \in ids}
    \cup UNION {Items(hp.list[hp.inst[id].packetsTX]) : id \in ids}

\* what data["TX"] or data["RX"] of the stick's command holds: None, or
\* the object at a
Ref(a) == <<"list", a>>
ListOf(st) == st.dataRX[2]

\* the frame a list of bytes read by the stick is the reply to
ReplyTo(hp, a) == hp.list[a][1].re

\* the addresses held by the instance id, in the order of its attributes
InstTrav(hp, id) ==
    LET o == hp.inst[id]
        rx == hp.list[o.dataRX]
    IN  <<o.dataTX, o.dataRX, o.packetsTX, o.packetsRX>>
        \o rx \o hp.list[o.packetsTX]
        \o [k \in 1..Len(rx) |-> ReplyTo(hp, rx[k])]

StickTrav(hp, st) ==
    (IF st.dataTX = None THEN <<>> ELSE <<st.dataTX[2]>>)
    \o (IF st.dataRX = None THEN <<>>
        ELSE <<ListOf(st), ReplyTo(hp, ListOf(st))>>)

Trav(hp, st) ==
    Flatten([k \in 1..Len(IdSeq) |-> InstTrav(hp, IdSeq[k])])
    \o StickTrav(hp, st)

\* The objects no attribute holds any more are freed.  An address is a name
\* only: the objects left are named in the order in which the attributes
\* hold them, so that two heaps of the same shape are the same heap.
Collect(hp, st) ==
    LET tr == Trav(hp, st)
        firsts == SelectSeq([k \in 1..Len(tr) |-> k],
                            LAMBDA k : \A j \in 1..(k - 1) : tr[j] # tr[k])
        Name(a) == CHOOSE r \in 1..Len(firsts) : tr[firsts[r]] = a
        refs == UNION {{hp.inst[id].dataRX, hp.inst[id].packetsTX} : id \in Ids}
        reads == UNION {Items(hp.list[hp.inst[id].dataRX]) : id \in Ids}
                 \cup (IF st.dataRX = None THEN {} ELSE {ListOf(st)})
        Renamed(a) ==
            IF a \in refs THEN [k \in 1..Len(hp.list[a]) |-> Name(hp.list[a][k])]
            ELSE IF a \in reads
            THEN <<[hp.list[a][1] EXCEPT !.re = Name(@)]>>
            ELSE hp.list[a]
    IN  [heap |->
            [list |-> [r \in 1..Len(firsts) |-> Renamed(tr[firsts[r]])],
             inst |-> [id \in Ids |->
                          [hp.inst[id] EXCEPT !.dataTX = Name(@),
                                              !.dataRX = Name(@),
                                              !.packetsTX = Name(@),
                                              !.packetsRX = Name(@)]]],
         stick |->
            [st EXCEPT !.dataTX = IF @ = None THEN @ ELSE Ref(Name(@[2])),
                       !.dataRX = IF @ = None THEN @ ELSE Ref(Name(@[2]))]]

\* the attributes of the instance id of a command of class k, before the
\* reset of its constructor
Blank(k, id) ==
    [kind |-> k,
     code |-> IF id[2] = "self" THEN CodeOf(k) ELSE SubCode(k, id[2]),
     timeout |-> IF id[2] = "self" THEN TimeoutOf(k) ELSE PumpTimeout,
     repeat |-> IF id[2] = "self" THEN RepeatOf(k) ELSE NoRepeat,
     response |-> None, parameters |-> None,
     dataTX |-> None, dataRX |-> None,
     packetsTX |-> None, packetsRX |-> None]

RECURSIVE Constructed(_, _)
Constructed(hp, ids) ==
    IF ids = <<>> THEN hp
    ELSE Constructed(PumpResetTwo(hp, Head(ids)), Tail(ids))

\* the instances A (class kA) and B (class kB) after construction
NewHeap(kA, kB) ==
    Constructed([list |-> <<>>,
                 inst |-> [id \in Ids |->
                             Blank(IF id[1] = "A" THEN kA ELSE kB, id)]],
                IdSeq)

\* WriteReadStickRadio.run(data, timeout): reset, encode, send (the frame f
\* is written), receive (the reply to it is read into a new list, or
\* RadioError is raised and data["RX"] stays None)
StickRun(hp, st, f, timeout, out, pkt) ==
    LET enc == StickEncode(StickReset(st), Ref(f), timeout, DefaultRetry)
        a == NewList(DOMAIN hp.list)
    IN  IF out = "RadioError"
        THEN [heap |-> hp, stick |-> enc]
        ELSE [heap |-> [hp EXCEPT !.list =
                            Store4(hp.list, <<a>>,
                                   <<[re |-> f, valid |-> out = "ok",
                                      pkt |-> pkt]>>)],
              stick |-> [enc EXCEPT !.dataRX = Ref(a)]]

\* PumpCommand.send of the instance id: the packet is made, appended to
\* packets["TX"] and handed to the stick's command
SendTwo(hp, st, id, out, pkt) ==
    LET o == hp.inst[id]
        f == NewList(DOMAIN hp.list)
        made == Store4(hp.list, <<f>>, <<ToPumpPacket(o.code, o.parameters)>>)
        hp1 == [hp EXCEPT !.list = [made EXCEPT ![o.packetsTX] = Append(@, f)]]
    IN  StickRun(hp1, st, f, o.timeout, out, pkt)

\* PumpCommand.receive of the instance id: the list the stick's command
\* holds is appended to data["RX"], then parsed (InvalidPacket is raised by
\* the parser), then the packet is appended to packets["RX"]
ReceiveTwo(hp, st, id) ==
    LET o == hp.inst[id]
        hp1 == [hp EXCEPT !.list[o.dataRX] = Append(@, ListOf(st))]
        item == hp.list[ListOf(st)][1]
    IN  IF item.valid
        THEN [heap |-> [hp1 EXCEPT !.list[o.packetsRX] = Append(@, item.pkt)],
              err |-> "none"]
        ELSE [heap |-> hp1, err |-> "InvalidPacket"]

PktsTX(hp, id) == hp.list[hp.inst[id].packetsTX]
PktsRX(hp, id) == hp.list[hp.inst[id].packetsRX]
DataRX(hp, id) == hp.list[hp.inst[id].dataRX]

\* the lists of the instance id, by value
ListsOf(hp, id) ==
    [dataTX |-> hp.list[hp.inst[id].dataTX],
     dataRX |-> [k \in 1..Len(DataRX(hp, id)) |->
                    [hp.list[DataRX(hp, id)[k]][1] EXCEPT
                        !.re = hp.list[@][1]]],
     packetsTX |-> [k \in 1..Len(PktsTX(hp, id)) |->
                        hp.list[PktsTX(hp, id)[k]][1]],
     packetsRX |-> PktsRX(hp, id)]

\* packets, data, response and counters of the instance X and of its
\* sub-commands
SnapshotOf(hp, X) ==
    [id \in Family(X) |->
        [lists |-> ListsOf(hp, id), response |-> hp.inst[id].response,
         repeat |-> hp.inst[id].repeat]]

Running == <<cur[1], "self">>

\* the classes of A and B: two instances of one class, and two classes
ClassPairs == {<<"PowerPump", "PowerPump">>,
               <<"DeliverPumpBolus", "DeliverPumpBolus">>,
               <<"DeliverPumpBolus", "ReadPumpHistoryPage">>}

InitTwo ==
    /\ \E ks \in ClassPairs :
        /\ heap = NewHeap(ks[1], ks[2])
        /\ kind = ks[1]
        /\ repeat = RepeatOf(ks[1])
    /\ obj = NewObj(kind)
    /\ prev = NoPrev
    /\ retry = PumpCommandRetry
    /\ pc = "idle"
    /\ i = 0
    /\ n = 0
    /\ packetsRX = <<>>
    /\ subRX = NoSub
    /\ response = None
    /\ err = "none"
    /\ phases = <<>>
    /\ frames = <<>>
    /\ page = NoPage
    /\ arg = 0
    /\ caller = "none"
    /\ errArgs = <<>>
    /\ subTX = NoSub
    /\ reporter = NoReports
    /\ stick = NewStick
    /\ cur = None

\* the heap and the stick's command after a step
Left2(hp, st) ==
    \E c \in {Collect(hp, st)} :
        /\ heap' = c.heap
        /\ stick' = c.stick

\* the run under way ends with the error e ("none": it returns)
FailTwo(e) ==
    /\ pc' = "idle"
    /\ cur' = None
    /\ err' = e
    /\ i' = 0

\* an error e of the core exchange or of an ACK run: self.retry() is called
\* when the command has a NAK budget (TypeError, the attribute is a number)
AfterError(e) ==
    IF Caught(e) /\ repeat.NAK # 0 THEN FailTwo("TypeError") ELSE FailTwo(e)

\* the error e is raised out of the run of a sub-command in the phase ph
AfterSubError(ph, e) ==
    IF ph = "prelude"
    THEN IF kind = "PowerPump" /\ Caught(e)
         THEN /\ pc' = "prelude"
              /\ i' = i + 1
              /\ cur' = Running
              /\ UNCHANGED err
         ELSE FailTwo(e)
    ELSE AfterError(e)

\* X.run(a) is called while no run is under way: reset, then encode
TwoRun ==
    /\ pc = "idle"
    /\ n < MaxRuns
    /\ \E X \in Tops :
        LET id == <<X, "self">>
            k == heap.inst[id].kind
            hp1 == PumpResetTwo(heap, id)
        IN
        /\ kind' = k
        /\ repeat' = heap.inst[id].repeat
        /\ \E a \in Args(k), pg \in Pages(k) :
            LET e == EncodeOf(k, a, DefaultParameters) IN
            /\ arg' = a
            /\ page' = pg
            /\ Left2([hp1 EXCEPT !.inst[id].parameters = e.parameters], stick)
            /\ IF e.err # "none"
               THEN FailTwo(e.err)
               ELSE /\ pc' = "prelude"
                    /\ cur' = id
                    /\ err' = "none"
                    /\ i' = 0
    /\ n' = n + 1
    /\ UNCHANGED <<obj, prev, retry, packetsRX, subRX, response, phases,
                   frames, caller, errArgs, subTX, reporter>>

\* the sub-command of the phase: Init in the prelude, ACK in the postlude
SubOf(ph) == IF ph = "prelude" THEN "Init" ELSE "ACK"

\* one iteration of the loop of prelude or postlude, up to the send of the
\* sub-command: self.cmds[...].run() resets the sub-command and sends
TwoSubSend ==
    /\ pc \in {"prelude", "postlude"}
    /\ i \in LoopRange(repeat[SubOf(pc)])
    /\ LET id == <<cur[1], SubOf(pc)>>
           hp1 == PumpResetTwo(heap, id)
       IN  \E out \in Outcomes :
           \E pkt \in IF out = "RadioError" THEN {AckPkt}
                      ELSE IF pc = "prelude" THEN StatusReplies
                      ELSE {ChunkReply(kind, page, PktsRX(heap, Running),
                                       repeat)} :
               LET r == SendTwo(hp1, stick, id, out, pkt) IN
               /\ Left2(r.heap, r.stick)
               /\ caller' = pc
               /\ IF out = "RadioError"
                  THEN AfterSubError(pc, out)
                  ELSE /\ pc' = "subreceive"
                       /\ cur' = id
                       /\ UNCHANGED <<i, err>>
    /\ UNCHANGED <<obj, prev, kind, repeat, retry, n, packetsRX, subRX,
                   response, phases, frames, page, arg, errArgs, subTX,
                   reporter>>

\* the rest of the iteration: the sub-command receives, decodes and returns,
\* then its last packet is appended to the packets of the command
TwoSubReceive ==
    /\ pc = "subreceive"
    /\ LET r == ReceiveTwo(heap, stick, cur)
           e == IF r.err # "none" THEN r.err
                ELSE IF SubIsSet(cur[2])
                        /\ PumpSetDecodeRaises(PktsRX(r.heap, cur))
                     THEN "UnsuccessfulRadioCommand" ELSE "none"
       IN  IF e # "none"
           THEN /\ Left2(r.heap, stick)
                /\ AfterSubError(caller, e)
           ELSE IF kind = "PowerPump"
           THEN /\ Left2(r.heap, stick)
                /\ pc' = "execute"
                /\ i' = 0
                /\ cur' = Running
                /\ UNCHANGED err
           ELSE /\ Left2([r.heap EXCEPT
                            !.list[r.heap.inst[Running].packetsRX] =
                                Append(@, LastPkt(PktsRX(r.heap, cur)))],
                         stick)
                /\ pc' = caller
                /\ i' = i + 1
                /\ cur' = Running
                /\ UNCHANGED err
    /\ UNCHANGED <<obj, prev, kind, repeat, retry, n, packetsRX, subRX,
                   response, phases, frames, page, arg, caller, errArgs,
                   subTX, reporter>>

\* the loop of prelude or postlude is over
TwoPhaseDone ==
    /\ pc \in {"prelude", "postlude"}
    /\ i \notin LoopRange(repeat[SubOf(pc)])
    /\ IF pc = "prelude" /\ kind = "PowerPump"
       THEN FailTwo("NoPump")
       ELSE /\ pc' = IF pc = "prelude" THEN "execute" ELSE "decode"
            /\ i' = 0
            /\ UNCHANGED <<cur, err>>
    /\ UNCHANGED <<obj, prev, kind, repeat, retry, n, packetsRX, subRX,
                   response, phases, frames, page, arg, caller, errArgs,
                   subTX, reporter, stick, heap>>

\* variant of TwoSend: the core frame is not sent
TwoSend_skipped ==
    /\ pc = "execute"
    /\ pc' = "receive"
    /\ UNCHANGED <<obj, prev, kind, repeat, retry, i, n, packetsRX, subRX,
                   response, err, phases, frames, page, arg, caller, errArgs,
                   subTX, reporter, stick, heap, cur>>

\* execute of the command: self.send()
TwoSend ==
    /\ pc = "execute"
    /\ \E out \in Outcomes :
       \E pkt \in IF out = "RadioError" THEN {AckPkt}
                  ELSE CoreReplies(kind, page, PktsRX(heap, cur), repeat) :
           LET r == SendTwo(heap, stick, cur, out, pkt) IN
           /\ Left2(r.heap, r.stick)
           /\ IF out = "RadioError"
              THEN AfterError(out)
              ELSE /\ pc' = "receive"
                   /\ UNCHANGED <<cur, err, i>>
    /\ UNCHANGED <<obj, prev, kind, repeat, retry, n, packetsRX, subRX,
                   response, phases, frames, page, arg, caller, errArgs,
                   subTX, reporter>>

\* execute of the command: self.receive()
TwoReceive ==
    /\ pc = "receive"
    /\ LET r == ReceiveTwo(heap, stick, cur) IN
        /\ Left2(r.heap, stick)
        /\ IF r.err # "none"
           THEN AfterError(r.err)
           ELSE /\ pc' = "postlude"
                /\ UNCHANGED <<cur, err, i>>
    /\ UNCHANGED <<obj, prev, kind, repeat, retry, n, packetsRX, subRX,
                   response, phases, frames, page, arg, caller, errArgs,
                   subTX, reporter>>

\* decode, store, and the run returns
TwoFinish ==
    /\ pc = "decode"
    /\ \E d \in {IF IsSet(kind)
                 THEN [err |-> IF PumpSetDecodeRaises(PktsRX(heap, cur))
                               THEN "UnsuccessfulRadioCommand" ELSE "none",
                       response |-> heap.inst[cur].response]
                 ELSE [f \in {"err", "response"} |->
                         HistoryPageDecode(PktsRX(heap, cur), repeat.Init,
                                           heap.inst[cur].response)[f]]} :
        /\ heap' = [heap EXCEPT !.inst[cur].response = d.response]
        /\ reporter' = IF d.err = "none"
                       THEN StoreOf(kind, reporter, d.response)
                       ELSE reporter
        /\ FailTwo(d.err)
    /\ UNCHANGED <<obj, prev, kind, repeat, retry, n, packetsRX, subRX,
                   response, phases, frames, page, arg, caller, errArgs,
                   subTX, stick>>

NextTwo ==
    \/ TwoRun
    \/ TwoSubSend
    \/ TwoSubReceive
    \/ TwoPhaseDone
    \/ TwoSend
    \/ TwoReceive
    \/ TwoFinish

SpecTwo == InitTwo /\ [][NextTwo]_vars

(***************************************************************************)
(* Properties.                                                             *)
(***************************************************************************)
FramesOf(f) == SelectSeq(frames, LAMBDA x : x.f = f)
InPhases(p) == \E k \in 1..Len(phases) : phases[k] = p
AllRadio(fs) == \A k \in 1..Len(fs) : fs[k].r = "radio"
LastFrame == frames[Len(frames)]

\* C1: PumpSetCommand.decode succeeds iff the last received packet has opcode
\* 06 and payload exactly [00]; for any other last packet it raises
\* UnsuccessfulRadioCommand, whatever the packets received before it.
C1_SetDecodeIffAck ==
    (pc = "decoded" /\ kind = "PumpSetCommand") =>
        LET p == packetsRX[Len(packetsRX)]
            isAck == /\ p.code = <<"0", "6">>
                     /\ Len(p.payload) = 1
                     /\ p.payload[1] = <<"0", "0">>
        IN  /\ isAck => err = "none"
            /\ ~isAck => err = "UnsuccessfulRadioCommand"

C1_Witness ==
    /\ pc = "decoded"
    /\ kind = "PumpSetCommand"
    /\ Len(packetsRX) >= 2
    /\ packetsRX[1] # AckPkt
    /\ err = "none"

\* C2: one invocation of retry with NAK budget N >= 1 runs the NAK
\* sub-command at most N times, stops at the first successful attempt, raises
\* UnsuccessfulRadioCommand when all N attempts failed, and never returns
\* normally without a successful NAK exchange.
C2_RetryBounded ==
    LET naks == FramesOf("NAK")
        N == repeat.NAK
        succeeded == naks # <<>> /\ naks[Len(naks)].r = "none"
    IN  /\ Len(naks) <= N
        /\ \A k \in 1..(Len(naks) - 1) : naks[k].r = "radio"
        /\ succeeded => pc # "retry"
        /\ pc \notin {"retry", "failed"} => succeeded
        /\ pc = "failed" => /\ err = "UnsuccessfulRadioCommand"
                            /\ Len(naks) = N
                            /\ AllRadio(naks)
        /\ (Len(naks) = N /\ AllRadio(naks) /\ n \notin 0..(N - 1) /\ pc # "retry")
              => pc = "failed"

C2_Witness ==
    /\ pc = "failed"
    /\ err = "UnsuccessfulRadioCommand"
    /\ repeat.NAK = 10
    /\ Len(FramesOf("NAK")) = 10

\* C3: when the core exchange of a big command raises RadioError or
\* InvalidPacket, the retry sub-protocol is entered if the NAK budget is
\* greater than 0, and the error is re-raised otherwise.
C3_CoreErrorInvokesRetry ==
    (frames # <<>> /\ LastFrame = [f |-> "Core", r |-> "radio"]) =>
        IF repeat.NAK > 0
        THEN pc = "retry"
        ELSE pc = "failed" /\ err \in {"RadioError", "InvalidPacket"}

\* C4: PowerPump.prelude runs Init at most 50 times, goes on only after a
\* RadioError or InvalidPacket, returns at the first Init that completes, and
\* raises NoPump iff all 50 attempts failed with such an error.
C4_PowerPrelude ==
    kind = "PowerPump" =>
        LET inits == FramesOf("Init")
            succeeded == inits # <<>> /\ inits[Len(inits)].r = "none"
        IN  /\ Len(inits) <= 50
            /\ \A k \in 1..(Len(inits) - 1) : inits[k].r = "radio"
            /\ succeeded => pc # "prelude"
            /\ InPhases("execute") => succeeded
            /\ err = "NoPump" =>
                  pc = "failed" /\ Len(inits) = 50 /\ AllRadio(inits)
            /\ (Len(inits) = 50 /\ AllRadio(inits) /\ pc # "prelude")
                  => pc = "failed" /\ err = "NoPump"
            /\ (pc = "failed" /\ InPhases("prelude") /\ ~InPhases("execute"))
                  => err \in {"NoPump", "UnsuccessfulRadioCommand"}

C4_Witness ==
    /\ kind = "PowerPump"
    /\ pc = "failed"
    /\ err = "NoPump"
    /\ Len(FramesOf("Init")) = 50

\* payload lengths of the packets P+1 .. m-1 of a sequence: where the bytes
\* of packet m start in the reassembled payload
RECURSIVE Offset(_, _, _)
Offset(pkts, P, m) ==
    IF m <= P + 1 THEN 0
    ELSE Offset(pkts, P, m - 1) + Len(pkts[m - 1].payload)

\* C5: ReadPumpHistoryPage.decode, for a reassembled payload of n >= 2 bytes:
\* if the CRC16 of the first n-2 bytes equals byte n-1 * 256 + byte n, the
\* response is the first n-2 bytes; otherwise HistoryPageBadCRC is raised with
\* the expected and the computed value and the response is not set.
C5_HistoryPageCRC ==
    (pc = "decoded" /\ kind = "ReadPumpHistoryPage") =>
        LET payload == PumpGetBigDecode(packetsRX, repeat.Init)[1]
            len == Len(payload)
            d == [k \in 1..(len - 2) |-> payload[k]]
            expected == payload[len - 1] * 256 + payload[len]
            computed == newComputeCRC16(d)
        IN  len >= 2 =>
                IF computed = expected
                THEN err = "none" /\ response = d
                ELSE /\ err = "HistoryPageBadCRC"
                     /\ errArgs = <<expected, computed>>
                     /\ response = None

C5_Witness ==
    /\ pc = "decoded"
    /\ kind = "ReadPumpHistoryPage"
    /\ err = "none"
    /\ repeat.Init >= 1
    /\ response # None
    /\ Len(response) >= 2

\* C6: PumpGetBigCommand.decode yields the payload bytes of the packets after
\* the first P packets, concatenated in receive order, and the size it
\* reports is the length of that concatenation.
C6_GetBigDecodeConcat ==
    (pc = "decoded" /\ kind = "PumpGetBigCommand") =>
        LET P == repeat.Init
            payload == response[1]
            size == response[2]
            L == Len(packetsRX)
        IN  /\ size = Len(payload)
            /\ size = Offset(packetsRX, P, L + 1)
            /\ \A m \in (P + 1)..L :
                 \A j \in 1..Len(packetsRX[m].payload) :
                    payload[Offset(packetsRX, P, m) + j]
                        = HexVal(packetsRX[m].payload[j])

C6_Witness ==
    /\ pc = "decoded"
    /\ kind = "PumpGetBigCommand"
    /\ repeat.Init = 1
    /\ Len(packetsRX) = 3
    /\ packetsRX[1].payload # <<>>
    /\ response[2] = 3

\* C7 as stated: a history page read performs no Init exchange, one core
\* exchange, then 15 ACK exchanges.
C7_NoInitExchange ==
    (kind = "ReadPumpHistoryPage" /\ InPhases("decode")) =>
        /\ FramesOf("Init") = <<>>
        /\ Len(FramesOf("Core")) = 1
        /\ Len(FramesOf("ACK")) = 15

\* C7 amended: ReadPumpHistoryPage has prelude (Init) count 1 and postlude
\* (ACK) count 15; a run that reaches decode has performed one Init exchange,
\* one core exchange, then 15 ACK exchanges, in that order.
C7_OneInitFifteenAck ==
    kind = "ReadPumpHistoryPage" =>
        /\ repeat.Init = 1
        /\ repeat.ACK = 15
        /\ Len(FramesOf("Init")) <= 1
        /\ Len(FramesOf("Core")) <= 1
        /\ Len(FramesOf("ACK")) <= 15
        /\ InPhases("decode") =>
              /\ Len(frames) = 17
              /\ frames[1].f = "Init"
              /\ frames[2].f = "Core"
              /\ \A k \in 3..17 : frames[k].f = "ACK"

C7_Witness ==
    /\ kind = "ReadPumpHistoryPage"
    /\ pc = "return"
    /\ Len(FramesOf("ACK")) = 15

\* C8: a run of a big command goes through reset, encode, prelude, execute,
\* postlude, decode, store, return in this order; no core frame is sent before
\* the prelude completed, no ACK before the core exchange completed, and
\* decode is not entered before the postlude completed.
C8_PhaseOrder ==
    LET order == <<"reset", "encode", "prelude", "execute", "postlude",
                   "decode", "store", "return">>
        inits == FramesOf("Init")
        cores == FramesOf("Core")
        acks == FramesOf("ACK")
    IN  /\ Len(phases) <= Len(order)
        /\ \A k \in 1..Len(phases) : phases[k] = order[k]
        /\ \A a, b \in 1..Len(frames) :
              a < b => /\ frames[a].f = "Core" => frames[b].f # "Init"
                       /\ frames[a].f = "ACK" => frames[b].f \in {"ACK", "NAK"}
        /\ Len(cores) <= 1
        /\ cores # <<>> =>
              /\ InPhases("execute")
              /\ inits # <<>> /\ inits[Len(inits)].r = "none"
              /\ kind # "PowerPump" =>
                    Len(inits) = repeat.Init /\ ~(\E k \in 1..Len(inits) :
                                                    inits[k].r # "none")
        /\ acks # <<>> =>
              /\ InPhases("postlude")
              /\ cores[1].r = "none" \/ FramesOf("NAK") # <<>>
        /\ InPhases("decode") =>
              /\ Len(acks) = repeat.ACK
              /\ frames[Len(frames)].r = "none"

C8_Witness ==
    /\ kind = "ReadPumpHistoryPage"
    /\ phases = <<"reset", "encode", "prelude", "execute", "postlude",
                  "decode", "store", "return">>
    /\ Len(frames) = 17

\* C9: in the postlude, a successful ACK run appends its last received packet
\* to the parent's packets; a failed one enters retry when the NAK budget is
\* greater than 0 (the loop then goes on), and is re-raised otherwise.
C9_PostludePolicy ==
    (frames # <<>> /\ LastFrame.f = "ACK") =>
        IF LastFrame.r = "none"
        THEN packetsRX # <<>> /\ LastPkt(packetsRX) = LastPkt(subRX.ACK)
        ELSE IF repeat.NAK > 0
             THEN pc = "retry"
             ELSE pc = "failed" /\ err \in {"RadioError", "InvalidPacket"}

\* C10: with a NAK budget greater than 0, a RadioError or InvalidPacket of
\* the prelude, the core or the postlude is caught and turned into retry
\* iterations; the caller sees a failure only as UnsuccessfulRadioCommand.
C10_ErrorsBecomeRetries ==
    (repeat.NAK > 0 /\ frames # <<>> /\ LastFrame.r = "radio"
        /\ LastFrame.f \in {"Init", "Core", "ACK"}) =>
        \/ pc = "retry"
        \/ pc = "failed" /\ err = "UnsuccessfulRadioCommand"

Unsuccessful == "UnsuccessfulRadioCommand"

\* C11: once UnsuccessfulRadioCommand is raised in a run (ACK mismatch in the
\* decode of a set command, or in an Init sub-command of a prelude, the
\* wake-up loop of PowerPump included), the run has failed with that error
\* and transmits no further Init, core, ACK or NAK frame.
C11_UnsuccessfulTerminal ==
    /\ [](/\ err = Unsuccessful => pc = "failed"
          /\ \A k \in 1..Len(frames) :
                frames[k].r = Unsuccessful =>
                    k = Len(frames) /\ pc = "failed" /\ err = Unsuccessful
          /\ (pc = "failed" /\ InPhases("decode") /\ IsSet(kind)) =>
                err = Unsuccessful /\ LastFrame.r = "none")
    /\ [][err = Unsuccessful =>
             \/ frames' = frames /\ err' = err /\ pc' = pc
             \/ frames' = <<>> /\ phases' = <<"reset", "encode">>]_vars

C11_Witness ==
    /\ kind = "PowerPump"
    /\ pc = "failed"
    /\ err = Unsuccessful
    /\ Len(frames) >= 2
    /\ frames[1].r = "radio"
    /\ LastFrame = [f |-> "Init", r |-> Unsuccessful]

\* the argument of the run is outside the range the command supports: an RF
\* session outside 0..30, a bolus (in hundredths of a unit) outside 0..250
\* internal units, a history page outside 0..35
OutOfRange ==
    CASE kind = "PowerPump" -> arg < 0 \/ arg > 30
      [] kind = "DeliverPumpBolus" -> arg <= -10 \/ arg >= 2510
      [] kind = "ReadPumpHistoryPage" -> arg < 0 \/ arg > 35

\* C12: when encode rejects its argument the run fails immediately, before
\* the prelude: no Init, core, ACK or NAK frame is transmitted, nothing is
\* received or stored, and no retry is attempted.
C12_EncodeRejection ==
    (phases # <<>> /\ pc # "encode" /\ OutOfRange) =>
        /\ pc = "failed"
        /\ err = "InvalidParameter"
        /\ phases = <<"reset", "encode">>
        /\ frames = <<>>
        /\ obj.packetsTX = <<>>
        /\ packetsRX = <<>>
        /\ response = None

C12_Witness ==
    /\ pc = "failed"
    /\ err = "InvalidParameter"
    /\ frames = <<>>
    /\ prev.pc = "return"
    /\ prev.rx > 0

\* C13: between runs, response is defined (not None) only if the most recent
\* run completed successfully; after construction and after a run that
\* failed in any stage it is None.
C13_ResponseOnlyAfterSuccess ==
    (pc \in Between /\ response # None) => pc = "return"

\* the steps of Command.run, in order
SimpleChain ==
    <<"reset", "encode", "send", "receive", "decode", "store", "return">>

\* C16: a simple command performs in one run the chain reset, encode, send,
\* receive, decode, store, each at most once and in that order; an error of
\* a stage reaches the caller, no later stage is executed, and the frame is
\* sent at most once.
C16_SimpleChain ==
    /\ [](/\ Len(phases) <= Len(SimpleChain)
          /\ \A k \in 1..Len(phases) : phases[k] = SimpleChain[k]
          /\ Len(frames) <= 1
          /\ Len(obj.packetsTX) <= 1
          /\ Len(obj.packetsTX) = Len(frames)
          /\ err # "none" <=> pc = "failed"
          /\ err = "RadioError" => phases[Len(phases)] = "send"
          /\ err = "InvalidPacket" => phases[Len(phases)] = "receive"
          /\ err \in {Unsuccessful, "UnboundLocalError"} =>
                phases[Len(phases)] = "decode"
          /\ pc = "return" =>
                phases = SimpleChain /\ Len(frames) = 1 /\ Len(packetsRX) = 1)
    /\ [][pc = "failed" =>
             \/ phases' = phases /\ frames' = frames /\ obj' = obj
             \/ phases' = <<"reset", "encode">> /\ frames' = <<>>]_vars

C16_Witness ==
    /\ pc = "failed"
    /\ err = "InvalidPacket"
    /\ phases = <<"reset", "encode", "send", "receive">>
    /\ Len(obj.packetsTX) = 1
    /\ prev.pc = "return"

\* C14: every run starts by reset, so when encode is entered the response is
\* None and the TX/RX data and packet buffers are empty whatever the previous
\* run on the instance left; the received packets a run decodes are those of
\* its own exchanges, at their own indices.
C14_ReusableAcrossRuns ==
    /\ pc = "encode" =>
          /\ response = None
          /\ obj.dataTX = <<>> /\ obj.dataRX = <<>>
          /\ obj.packetsTX = <<>> /\ packetsRX = <<>>
    /\ InPhases("decode") =>
          LET P == IF kind = "PowerPump" THEN 0 ELSE repeat.Init IN
          /\ Len(packetsRX) = P + 1 + repeat.ACK
          /\ \A k \in 1..P : packetsRX[k] = AckPkt
          /\ IsGetBig(kind) =>
                \A k \in 1..(1 + repeat.ACK) :
                    packetsRX[P + k] = Pkt(CodeOf(kind), page[k])

C14_Witness ==
    /\ pc = "encode"
    /\ kind = "ReadPumpHistoryPage"
    /\ prev.pc = "return"
    /\ prev.response # None
    /\ prev.rx = 17

\* C15: reset sets response to None, empties the TX/RX data and packet
\* buffers and restores the default parameter block; it leaves the opcode,
\* the report name, the radio timeout, the Init/ACK/NAK counts and the bound
\* sub-commands unchanged; a second reset changes nothing.
C15_ResetIdempotent ==
    [][/\ response' = None
       /\ obj'.dataTX = <<>> /\ obj'.dataRX = <<>>
       /\ obj'.packetsTX = <<>> /\ packetsRX' = <<>>
       /\ obj'.parameters = <<<<"0", "0">>>>
       /\ obj'.code = obj.code
       /\ obj'.report = obj.report
       /\ obj'.timeout = obj.timeout
       /\ repeat' = repeat
       /\ retry' = retry
       /\ subRX' = subRX
       /\ pc = "reset once" =>
             obj' = obj /\ response' = response /\ packetsRX' = packetsRX]_vars

C15_Witness ==
    /\ pc = "reset twice"
    /\ kind = "ReadPumpHistoryPage"
    /\ prev.response # None
    /\ prev.rx = 2
    /\ subRX.Init # <<>>
    /\ response = None
    /\ packetsRX = <<>>
    /\ obj = NewObj(kind)

\* C17: an invocation of retry that returns normally has appended exactly one
\* packet, the last received packet of the NAK sub-command, at the end of the
\* parent's received packets; failed NAK attempts append nothing.
C17_RetryAppendsOne ==
    LET naks == FramesOf("NAK")
        before == Len(SelectSeq(frames,
                                LAMBDA x : x.f # "NAK" /\ x.r = "none"))
        kept == /\ packetsRX[1] = AckPkt
                /\ \A k \in 2..before :
                      packetsRX[k] = Pkt(CodeOf(kind), page[k - 1])
    IN  /\ pc \in {"retry", "failed"} =>
              Len(packetsRX) = before /\ kept /\ AllRadio(naks)
        /\ pc \notin {"retry", "failed"} =>
              /\ Len(packetsRX) = before + 1
              /\ kept
              /\ LastPkt(packetsRX) = LastPkt(subRX.NAK)
              /\ Len(SelectSeq(naks, LAMBDA x : x.r = "none")) = 1

C17_Witness ==
    /\ pc = "postlude"
    /\ caller = "postlude"
    /\ Len(FramesOf("NAK")) = 3
    /\ Len(packetsRX) >= 3
    /\ LastPkt(packetsRX) = LastPkt(subRX.NAK)

\* the frames of the run that obtained a reply
Replied(fs) == SelectSeq(frames, LAMBDA x : x.f \in fs /\ x.r = "none")

\* C18: after a RadioError or InvalidPacket was caught, the next protocol
\* action of the run is a further attempt (the next Init of the wake-up
\* loop, or a NAK) or the raising of an error to the caller; a run returns
\* normally only if every exchange it needed obtained a reply.
C18_NoErrorSwallowed ==
    /\ [](/\ \A k \in 1..(Len(frames) - 1) :
                frames[k].r = "radio" =>
                    frames[k + 1].f = IF frames[k].f = "Init" THEN "Init"
                                      ELSE "NAK"
          /\ (frames # <<>> /\ LastFrame.r = "radio") =>
                \/ pc = "failed" /\ err # "none"
                \/ pc = "prelude" /\ kind = "PowerPump"
                \/ pc = "retry"
          /\ InPhases("return") =>
                /\ Len(Replied({"Init"})) =
                      IF kind = "PowerPump" THEN 1 ELSE repeat.Init
                /\ Len(Replied({"Core", "ACK", "NAK"})) = 1 + repeat.ACK
                /\ LastFrame.r = "none")
    /\ [][(frames # <<>> /\ LastFrame.r = "radio" /\ pc # "failed") =>
             \/ /\ Len(frames') = Len(frames) + 1
                /\ frames'[Len(frames')].f \in {"Init", "NAK"}
             \/ pc' = "failed" /\ err' # "none" /\ frames' = frames]_vars

C18_Witness ==
    /\ kind = "PowerPump"
    /\ pc = "return"
    /\ Len(frames) >= 3
    /\ frames[1].r = "radio"
    /\ frames[2].r = "radio"

UpperHex == <<"0", "1", "2", "3", "4", "5", "6", "7",
              "8", "9", "A", "B", "C", "D", "E", "F">>

\* a byte as two upper-case hex digits
HexByte(b) == <<UpperHex[(b \div 16) + 1], UpperHex[(b % 16) + 1]>>

\* entries from..65 of the parameter block are "00"
ZeroFrom(from) ==
    /\ Len(obj.parameters) = 65
    /\ \A k \in from..65 : obj.parameters[k] = <<"0", "0">>

EncodeRefused ==
    /\ pc = "failed"
    /\ err = "InvalidParameter"
    /\ obj.parameters = <<<<"0", "0">>>>

\* C19: DeliverPumpBolus.encode converts the bolus (arg, in hundredths of a
\* unit) to internal units bolus * 10 truncated toward zero, accepts it iff
\* the units lie in [0, 250], and then produces the 65-entry block "01",
\* the units as one upper-case hex byte, zeros; 2.5 U gives "01", "19", ...;
\* 26 U is refused and no block is produced.
C19_BolusEncode ==
    (kind = "DeliverPumpBolus" /\ pc # "encode") =>
        LET u == IF arg >= 0
                 THEN CHOOSE x \in 0..300 : 10 * x <= arg /\ arg < 10 * x + 10
                 ELSE CHOOSE x \in (-300)..0 :
                         10 * x - 10 < arg /\ arg <= 10 * x
        IN  /\ IF 0 <= u /\ u <= 250
               THEN /\ pc = "prelude" /\ err = "none"
                    /\ obj.parameters[1] = <<"0", "1">>
                    /\ obj.parameters[2] = HexByte(u)
                    /\ ZeroFrom(3)
               ELSE EncodeRefused
            /\ arg = 250 => obj.parameters[2] = <<"1", "9">>
            /\ arg = 2600 => EncodeRefused

C19_Witness ==
    /\ kind = "DeliverPumpBolus"
    /\ arg = 250
    /\ pc = "prelude"
    /\ Len(obj.parameters) = 65
    /\ obj.parameters[2] = <<"1", "9">>

\* C20: PowerPump.encode(t), for an integer t in [0, 30], produces the
\* 65-entry block "02", "01", t as one upper-case hex byte, then 62 times
\* "00" (t = 10 gives "02", "01", "0A"); t outside [0, 30] is refused.
C20_PowerPumpEncode ==
    (kind = "PowerPump" /\ pc # "encode") =>
        /\ IF 0 <= arg /\ arg <= 30
           THEN /\ pc = "prelude" /\ err = "none"
                /\ obj.parameters[1] = <<"0", "2">>
                /\ obj.parameters[2] = <<"0", "1">>
                /\ obj.parameters[3] = HexByte(arg)
                /\ ZeroFrom(4)
           ELSE EncodeRefused
        /\ arg = 10 => obj.parameters[3] = <<"0", "A">>

C20_Witness ==
    /\ kind = "PowerPump"
    /\ arg = 10
    /\ pc = "prelude"
    /\ Len(obj.parameters) = 65
    /\ obj.parameters[3] = <<"0", "A">>

\* the timeouts of k radio attempts of t milliseconds each, added up
RECURSIVE AttemptsSum(_, _)
AttemptsSum(k, t) == IF k = 0 THEN 0 ELSE t + AttemptsSum(k - 1, t)

\* C21: the blocking timeout the stick's radio command is given is
\* (retry + 1) * timeout + 500 for every retry count and timeout >= 0, and so
\* is greater than the timeouts of all retry + 1 attempts together; a pump
\* command's send gives it the command's own timeout (250 or 150) and the
\* default retry count 3.
C21_StickTimeout ==
    pc = "encoded" =>
        /\ stick.retry = arg[1]
        /\ stick.timeoutStick = (arg[1] + 1) * arg[2] + 500
        /\ stick.timeoutStick > AttemptsSum(stick.retry + 1, arg[2])
        /\ caller = "pump" =>
                /\ arg[1] = 3
                /\ arg[2] = obj.timeout
                /\ arg[2] = IF kind = "ReadPumpHistoryPage" THEN 150 ELSE 250

C21_Witness ==
    /\ pc = "encoded"
    /\ caller = "pump"
    /\ kind = "ReadPumpHistoryPage"
    /\ stick.timeoutStick = 1100

\* the hex pairs "00" .. "FF"
HexPairs == {HexByte(b) : b \in 0..255}

\* every frame the instance and its sub-commands have built
FramesBuilt ==
    {obj.packetsTX[k] : k \in 1..Len(obj.packetsTX)}
    \cup UNION {{subTX[s][k] : k \in 1..Len(subTX[s])} :
                    s \in {"Init", "ACK", "NAK"}}

\* C22 (as stated): every frame a pump command builds, those of the Init, ACK
\* and NAK sub-commands included, has a parameter block of 65 hex pairs.
C22_AllBlocks65 ==
    \A f \in FramesBuilt :
        /\ Len(f.parameters) = 65
        /\ \A k \in 1..65 : f.parameters[k] \in HexPairs

\* C22 (amended): the frame of a command whose encode builds a block has 65
\* hex pairs (a count of data bytes, the data, "00" up to the end); the frame
\* of a command without parameters (here the Init, ACK and NAK sub-commands)
\* has the one-entry block "00" that reset leaves.
C22_BlockOrDefault ==
    /\ \A k \in 1..Len(obj.packetsTX) :
            LET ps == obj.packetsTX[k].parameters
                cnt == HexVal(ps[1])
            IN  /\ Len(ps) = 65
                /\ \A j \in 1..65 : ps[j] \in HexPairs
                /\ cnt \in 1..2
                /\ \A j \in (cnt + 2)..65 : ps[j] = <<"0", "0">>
    /\ \A s \in {"Init", "ACK", "NAK"} :
            \A k \in 1..Len(subTX[s]) :
                subTX[s][k].parameters = <<<<"0", "0">>>>

C22_Witness ==
    /\ pc = "return"
    /\ kind = "ReadPumpHistoryPage"
    /\ Len(obj.packetsTX) = 1
    /\ Len(subTX.Init) = 1
    /\ Len(subTX.ACK) = 1

\* C25: in one run of a big command the command's own frame is handed to the
\* radio at most once; a failed core or ACK exchange does not send it again.
C25_CoreSentOnce ==
    /\ Len(FramesOf("Core")) <= 1
    /\ Len(obj.packetsTX) = Len(FramesOf("Core"))
    /\ \A k \in 1..Len(frames) :
            (frames[k].f = "Core" /\ k < Len(frames)) =>
                \A j \in (k + 1)..Len(frames) : frames[j].f \in {"ACK", "NAK"}

C25_Witness ==
    /\ pc = "failed"
    /\ kind = "ReadPumpHistoryPage"
    /\ Len(FramesOf("Core")) = 1
    /\ Len(frames) >= 4
    /\ LastFrame = [f |-> "ACK", r |-> "radio"]

\* C26: a set command with the prelude of PumpBigCommand sends its own frame
\* only after each of its repeat["Init"] Init runs succeeded (reply 06 with
\* payload 00); when an Init run fails, the run fails and the frame of the
\* command is not sent.
C26_CoreAfterInits ==
    (IsSet(kind) /\ kind # "PowerPump") =>
        /\ \A k \in 1..Len(frames) :
                frames[k].f = "Core" =>
                    /\ k = repeat.Init + 1
                    /\ \A j \in 1..repeat.Init :
                            frames[j] = [f |-> "Init", r |-> "none"]
                    /\ repeat.Init > 0 =>
                            /\ LastPkt(subRX.Init).code = <<"0", "6">>
                            /\ LastPkt(subRX.Init).payload[1] = <<"0", "0">>
        /\ (\E k \in 1..Len(frames) :
                frames[k].f = "Init" /\ frames[k].r # "none") =>
                    /\ pc = "failed"
                    /\ FramesOf("Core") = <<>>
                    /\ obj.packetsTX = <<>>

C26_Witness ==
    /\ kind = "DeliverPumpBolus"
    /\ pc = "postlude"
    /\ frames = <<[f |-> "Init", r |-> "none"], [f |-> "Core", r |-> "none"]>>

\* C27: when decode of a big command is entered, packets["RX"] holds the
\* replies of the repeat["Init"] Init exchanges (none for PowerPump), then the
\* reply of the core exchange, then those of the repeat["ACK"] ACK exchanges,
\* in this order; a failed core or ACK exchange has its place taken by the
\* reply to the NAK that succeeded after it.
C27_PacketsAtDecode ==
    pc = "decode" =>
        LET P == IF kind = "PowerPump" THEN 0 ELSE repeat.Init
            got == SelectSeq(frames, LAMBDA x :
                       x.f \in {"Core", "ACK", "NAK"} /\ x.r = "none")
        IN  /\ Len(packetsRX) = P + 1 + repeat.ACK
            /\ Len(got) = 1 + repeat.ACK
            /\ \A k \in 1..P : packetsRX[k] = LastPkt(subRX.Init)
            /\ IsGetBig(kind) =>
                    \A k \in 1..(1 + repeat.ACK) :
                        packetsRX[P + k] = Pkt(obj.code, page[k])
            /\ \A k \in 1..Len(frames) :
                    (frames[k].f \in {"Core", "ACK"} /\ frames[k].r # "none")
                    => \E j \in (k + 1)..Len(frames) :
                            /\ frames[j] = [f |-> "NAK", r |-> "none"]
                            /\ \A m \in (k + 1)..j : frames[m].f = "NAK"

C27_Witness ==
    /\ pc = "decode"
    /\ kind = "ReadPumpHistoryPage"
    /\ Len(packetsRX) = 17

\* C28 (as stated): the NAK budget is per failed exchange: every failing core
\* or ACK exchange of a run starts a retry loop of up to repeat["NAK"] NAK
\* runs, so a run sends at most (1 + repeat["ACK"]) * repeat["NAK"] NAK frames.
C28_RetryPerFailedExchange ==
    /\ Len(FramesOf("NAK")) <= (1 + repeat.ACK) * repeat.NAK
    /\ \A k \in 1..Len(frames) :
            (/\ repeat.NAK > 0
             /\ frames[k].f \in {"Core", "ACK"}
             /\ frames[k].r = "radio") =>
                IF k = Len(frames)
                THEN pc = "retry" /\ n = 0
                ELSE frames[k + 1].f = "NAK"

\* C29: every run of a big command ends, by returning or by raising, as long
\* as each call it makes returns: the counts that bound its loops do not
\* change during the run and the run hands at most repeat["Init"] + 1 +
\* repeat["ACK"] frames of its own to the radio.
C29_RunTerminates ==
    /\ [][pc \notin Between => (repeat' = repeat /\ kind' = kind)]_vars
    /\ [](Len(frames) <= repeat.Init + 1 + repeat.ACK)
    /\ (pc \notin Between) ~> (pc \in Between)

C29_Witness ==
    /\ pc = "failed"
    /\ kind = "PowerPump"
    /\ err = "NoPump"
    /\ Len(frames) = 50
    /\ prev.pc = "return"

\* C30: store is entered only in a run whose decode returned, after it; a
\* run that fails in encode, prelude, execute, postlude or decode does not
\* enter store, and nothing is added to a report but by store.
C30_StoreOnlyAfterDecode ==
    /\ [](InPhases("store") =>
            /\ err = "none"
            /\ \E k \in 2..Len(phases) :
                    phases[k] = "store" /\ phases[k - 1] = "decode")
    /\ [](pc = "failed" => ~InPhases("store"))
    /\ [][reporter' # reporter =>
            (pc = "store" /\ pc' = "return" /\ err = "none")]_vars

C30_Witness ==
    /\ pc = "failed"
    /\ kind = "PowerPump"
    /\ prev.pc = "return"
    /\ InPhases("decode")
    /\ DOMAIN reporter = {<<"pump.json", <<>>, "Power">>}
    /\ reporter[<<"pump.json", <<>>, "Power">>] = "now"

(***************************************************************************)
(* Two instances and one stick.                                            *)
(***************************************************************************)
Other(X) == IF X = "A" THEN "B" ELSE "A"

\* no list is reached from both instances (their sub-commands included)
NoListShared == Reach(heap, Family("A")) \cap Reach(heap, Family("B")) = {}

\* a step of a run leaves packets, data, response and counters of the
\* other instance as they were
OthersKept ==
    \A X \in Tops :
        (cur # None /\ cur[1] # X) \/ (cur' # None /\ cur'[1] # X)
            => SnapshotOf(heap', X) = SnapshotOf(heap, X)

\* C23, as stated: the buffers, the sub-commands and the counters of a
\* command are its own, a run never changes those of another instance, and
\* the stick is the only state the runs of two commands change
C23_OnlyStickShared ==
    /\ []NoListShared
    /\ [][OthersKept /\ reporter' = reporter]_vars

\* C23, amended: the buffers, the sub-commands and the counters of a
\* command are its own, a run never changes those of another instance, and
\* besides the stick the runs of two commands only change the reports, which
\* they do at the end of a run that did not fail
C23_OwnBuffers ==
    /\ []NoListShared
    /\ [][/\ OthersKept
          /\ reporter' # reporter
                => (pc = "decode" /\ pc' = "idle" /\ err' = "none")]_vars

\* B has run after A, each with a reply received, and the report was
\* written
C23_Witness ==
    /\ n = MaxRuns
    /\ pc = "idle"
    /\ reporter # NoReports
    /\ \A X \in Tops : Len(DataRX(heap, <<X, "self">>)) > 0

\* C24: with the runs made one at a time, every packet a command appends in
\* receive is taken from the reply to the frame this command sent last
C24_ReplyToOwnFrame ==
    [][\A id \in Ids :
        Len(DataRX(heap', id)) > Len(DataRX(heap, id))
            => LET item == heap'.list[LastPkt(DataRX(heap', id))][1]
               IN  /\ PktsTX(heap', id) # <<>>
                   /\ item.re = LastPkt(PktsTX(heap', id))
                   /\ Len(PktsRX(heap', id)) > Len(PktsRX(heap, id))
                        => /\ id = cur
                           /\ LastPkt(PktsRX(heap', id)) = item.pkt]_vars

\* in the second run, an ACK sub-command of one instance has recorded its
\* reply while the other instance holds the packets of a run of its own
C24_Witness ==
    /\ n = MaxRuns
    /\ pc = "postlude"
    /\ i > 0
    /\ Len(PktsRX(heap, <<cur[1], "ACK">>)) = 1
    /\ Len(PktsRX(heap, <<Other(cur[1]), "self">>)) > 0

(***************************************************************************)
(* The number of history pages, read from the pump by ReadPumpHistorySize, *)
(* and the encode of ReadPumpHistoryPage for a page index of the caller's  *)
(* choosing.  packetsRX and response are the ones of the size command, obj *)
(* the page command.                                                       *)
(***************************************************************************)
\* values of a byte
Bytes == 0..255

\* replies to ReadPumpHistorySize: the fourth byte of the payload is any byte
HistorySizeReplies ==
    {SizedPkt("9D", <<3, 1, 2, b, 7>>) : b \in Bytes}

Min(a, b) == IF a <= b THEN a ELSE b

\* variant of HistorySizeDecode: the count is not capped
HistorySizeDecode_noCap(pkts) == PumpGetDecode(pkts)[1][4] + 1

\* ReadPumpHistorySize.decode: self.response = min(payload[3] + 1, 36)
HistorySizeDecode(pkts) == Min(PumpGetDecode(pkts)[1][4] + 1, 36)

InitHistory ==
    /\ kind = "ReadPumpHistoryPage"
    /\ packetsRX \in {<<p>> : p \in HistorySizeReplies}
    /\ obj = NewObj(kind)
    /\ prev = NoPrev
    /\ repeat = RepeatOf(kind)
    /\ retry = RetryAttr(kind)
    /\ pc = "decode"
    /\ phases = <<>>
    /\ i = 0
    /\ n = 0
    /\ arg = 0
    /\ subRX = NoSub
    /\ response = None
    /\ err = "none"
    /\ frames = <<>>
    /\ page = NoPage
    /\ caller = "none"
    /\ errArgs = <<>>
    /\ subTX = NoSub
    /\ reporter = NoReports
    /\ Elsewhere

\* ReadPumpHistorySize.decode
SizeDecode ==
    /\ pc = "decode"
    /\ response' = HistorySizeDecode(packetsRX)
    /\ pc' = "sized"
    /\ UNCHANGED <<obj, prev, kind, repeat, retry, i, n, packetsRX, subRX, err,
                   phases, frames, page, arg, caller, errArgs, subTX, reporter,
                   stick, heap, cur>>

\* ReadPumpHistoryPage.encode(page), for a page below, inside and above the
\* count read
PageEncode ==
    /\ pc = "sized"
    /\ \E p \in EncodeArgs(kind) :
        LET e == HistoryPageEncode(p, obj.parameters) IN
        /\ arg' = p
        /\ obj' = [obj EXCEPT !.parameters = e.parameters]
        /\ err' = e.err
        /\ pc' = IF e.err # "none" THEN "failed" ELSE "encoded"
    /\ UNCHANGED <<prev, kind, repeat, retry, i, n, packetsRX, subRX, response,
                   phases, frames, page, caller, errArgs, subTX, reporter,
                   stick, heap, cur>>

NextHistory ==
    \/ SizeDecode
    \/ PageEncode

SpecHistory == InitHistory /\ [][NextHistory]_vars

\* the byte payload[3] of the reply to ReadPumpHistorySize
SizeByte == HexVal(packetsRX[1].payload[4])

\* C31: ReadPumpHistorySize.decode returns payload[3] + 1 capped at 36, a
\* page count in 1..36 for every byte 0..255; every page index p with
\* 0 <= p < count is accepted by ReadPumpHistoryPage.encode and encoded as
\* the 65-entry block "01", p in two hex digits, zeros; p = 36 and p < 0 are
\* rejected and no block is produced.
C31_PageCountAndIndex ==
    (pc # "decode") =>
        /\ response \in 1..36
        /\ response = IF SizeByte < 35 THEN SizeByte + 1 ELSE 36
        /\ (pc # "sized" /\ 0 <= arg /\ arg < response) =>
              /\ pc = "encoded" /\ err = "none"
              /\ obj.parameters[1] = <<"0", "1">>
              /\ obj.parameters[2] = HexByte(arg)
              /\ ZeroFrom(3)
        /\ (pc # "sized" /\ (arg = 36 \/ arg < 0)) => EncodeRefused

\* the last page of a full history is encoded
C31_Witness ==
    /\ pc = "encoded"
    /\ SizeByte = 255
    /\ response = 36
    /\ arg = 35
    /\ obj.parameters[2] = <<"2", "3">>
    /\ Len(obj.parameters) = 65

(***************************************************************************)
(* The commands of the stick: what send writes to the stick, item by item. *)
(* frames is the list of the items written, in the order of the calls of   *)
(* stick.write; <<"int", <<x>>>> is write(x) of a number, <<"list", l>>    *)
(* write(l) of a list of bytes.                                            *)
(***************************************************************************)
StickKinds ==
    {"ReadStickName", "ReadStickAuthor", "ReadStickRadioRegister",
     "WriteStickRadioRegister", "ReadStickRadio", "WriteStickRadio",
     "WriteReadStickRadio", "SwitchStickLED"}

\* self.code of the stick commands
StickCode(k) ==
    CASE k = "ReadStickName" -> 0
      [] k = "ReadStickAuthor" -> 1
      [] k = "ReadStickRadioRegister" -> 10
      [] k = "WriteStickRadioRegister" -> 11
      [] k = "ReadStickRadio" -> 20
      [] k = "WriteStickRadio" -> 21
      [] k = "WriteReadStickRadio" -> 22
      [] k = "SwitchStickLED" -> 30

\* stick.registers: the names of the radio registers, in address order
Registers == <<"SYNC1", "SYNC0", "PKTLEN">>

\* stick.registers.index(register)
RegisterIndex(r) == (CHOOSE k \in 1..Len(Registers) : Registers[k] = r) - 1

NoArgs ==
    [data |-> <<>>, timeout |-> 0, retry |-> 0, repeat |-> 0, delay |-> 0,
     channel |-> 0, channelTX |-> 0, channelRX |-> 0, register |-> "SYNC1",
     value |-> 0]

\* the arguments run is called with, the defaults of encode among them
WireArgs(k) ==
    CASE k = "ReadStickRadioRegister" ->
            {[NoArgs EXCEPT !.register = r] : r \in {"SYNC0", "PKTLEN"}}
      [] k = "WriteStickRadioRegister" ->
            {[NoArgs EXCEPT !.register = r, !.value = v] :
                r \in {"SYNC0", "PKTLEN"}, v \in {0, 255}}
      [] k = "ReadStickRadio" ->
            {[NoArgs EXCEPT !.timeout = t, !.channel = c] :
                t \in {250, 70000}, c \in {0, 2}}
      [] k = "WriteStickRadio" ->
            {[NoArgs EXCEPT !.data = d, !.repeat = rp, !.delay = dl,
                            !.channel = c] :
                d \in {<<>>, <<167, 1>>}, rp \in {0, 4}, dl \in {0, 258},
                c \in {0, 2}}
      [] k = "WriteReadStickRadio" ->
            {[NoArgs EXCEPT !.data = d, !.timeout = t, !.retry = r,
                            !.repeat = rp, !.delay = dl, !.channelTX = ct,
                            !.channelRX = cr] :
                d \in {<<>>, <<167, 1>>}, t \in {250, 70000},
                r \in {0, DefaultRetry}, rp \in {1, 4}, dl \in {0, 258},
                ct \in {0, 5}, cr \in {0, 2}}
      [] OTHER -> {NoArgs}

\* the attributes of a stick command after construction (reset)
NewStickCommand(k) ==
    [code |-> StickCode(k), dataTX |-> None, timeoutStick |-> None,
     timeoutRadio |-> None, retry |-> None, repeat |-> None, delay |-> None,
     channel |-> None, channelTX |-> None, channelRX |-> None,
     register |-> None, address |-> None, value |-> None]

\* self.encode(*args) of the stick commands; Command.encode does nothing
StickCommandEncode(k, o, a) ==
    CASE k = "ReadStickRadioRegister" ->
            [o EXCEPT !.register = a.register,
                      !.address = RegisterIndex(a.register)]
      [] k = "WriteStickRadioRegister" ->
            [o EXCEPT !.register = a.register,
                      !.address = RegisterIndex(a.register),
                      !.value = a.value]
      [] k = "ReadStickRadio" ->
            [o EXCEPT !.timeoutStick = a.timeout + StickMargin,
                      !.timeoutRadio = Pack4(a.timeout),
                      !.channel = a.channel]
      [] k = "WriteStickRadio" ->
            [o EXCEPT !.dataTX = a.data,
                      !.repeat = a.repeat,
                      !.delay = Pack4(a.delay),
                      !.channel = a.channel]
      [] k = "WriteReadStickRadio" ->
            [o EXCEPT !.dataTX = a.data,
                      !.timeoutStick = StickTimeout(a.retry, a.timeout),
                      !.timeoutRadio = Pack4(a.timeout),
                      !.retry = a.retry,
                      !.repeat = a.repeat,
                      !.delay = Pack4(a.delay),
                      !.channelTX = a.channelTX,
                      !.channelRX = a.channelRX]
      [] OTHER -> o

\* self.stick.write(x) of a number and of a list of bytes
WInt(x) == <<"int", <<x>>>>
WList(l) == <<"list", l>>

\* variant of WriteReadStickRadioSend: the retry count and the write repeat
\* count have changed places
WriteReadStickRadioSend_swapped(o) ==
    <<WInt(o.code), WInt(o.channelTX), WInt(o.retry), WList(o.delay),
      WInt(o.channelRX), WList(o.timeoutRadio), WInt(o.repeat),
      WList(o.dataTX), WInt(0)>>

\* WriteReadStickRadio.send
WriteReadStickRadioSend(o) ==
    <<WInt(o.code), WInt(o.channelTX), WInt(o.repeat), WList(o.delay),
      WInt(o.channelRX), WList(o.timeoutRadio), WInt(o.retry),
      WList(o.dataTX), WInt(0)>>

\* WriteStickRadio.send
WriteStickRadioSend(o) ==
    <<WInt(o.code), WInt(o.channel), WList(o.delay), WList(o.dataTX),
      WInt(0)>>

\* self.send() of the stick commands: the items written, in order
StickCommandSend(k, o) ==
    CASE k \in {"ReadStickName", "ReadStickAuthor", "SwitchStickLED"} ->
            <<WInt(o.code)>>
      [] k = "ReadStickRadioRegister" -> <<WInt(o.code), WInt(o.address)>>
      [] k = "WriteStickRadioRegister" ->
            <<WInt(o.code), WInt(o.address), WInt(o.value)>>
      [] k = "ReadStickRadio" ->
            <<WInt(o.code), WInt(o.channel), WList(o.timeoutRadio)>>
      [] k = "WriteStickRadio" -> WriteStickRadioSend(o)
      [] k = "WriteReadStickRadio" -> WriteReadStickRadioSend(o)

InitWire ==
    /\ kind \in StickKinds
    /\ arg \in WireArgs(kind)
    /\ obj = NewStickCommand(kind)
    /\ prev = NoPrev
    /\ repeat = NoRepeat
    /\ retry = PumpCommandRetry
    /\ pc = "run"
    /\ phases = <<>>
    /\ i = 0
    /\ n = 0
    /\ packetsRX = <<>>
    /\ subRX = NoSub
    /\ response = None
    /\ err = "none"
    /\ frames = <<>>
    /\ page = NoPage
    /\ caller = "none"
    /\ errArgs = <<>>
    /\ subTX = NoSub
    /\ reporter = NoReports
    /\ Elsewhere

\* Command.run of a stick command: self.reset(), self.encode(*args)
WireEncode ==
    /\ pc = "run"
    /\ obj' = StickCommandEncode(kind, NewStickCommand(kind), arg)
    /\ frames' = <<>>
    /\ pc' = "send"
    /\ UNCHANGED <<prev, kind, repeat, retry, i, n, packetsRX, subRX, response,
                   err, phases, page, arg, caller, errArgs, subTX, reporter,
                   stick, heap, cur>>

\* Command.execute: self.send()
WireSend ==
    /\ pc = "send"
    /\ frames' = frames \o StickCommandSend(kind, obj)
    /\ pc' = "receive"
    /\ UNCHANGED <<obj, prev, kind, repeat, retry, i, n, packetsRX, subRX,
                   response, err, phases, page, arg, caller, errArgs, subTX,
                   reporter, stick, heap, cur>>

NextWire ==
    \/ WireEncode
    \/ WireSend

SpecWire == InitWire /\ [][NextWire]_vars

\* l is x in 4 bytes, the most significant one first
BigEndian4(l, x) ==
    /\ Len(l) = 4
    /\ \A k \in 1..4 : l[k] \in Bytes
    /\ ((l[1] * 256 + l[2]) * 256 + l[3]) * 256 + l[4] = x

\* the opcodes of the stick commands, as the interface lists them
Opcodes ==
    [k \in StickKinds |->
        IF k = "ReadStickName" THEN 0
        ELSE IF k = "ReadStickAuthor" THEN 1
        ELSE IF k = "ReadStickRadioRegister" THEN 10
        ELSE IF k = "WriteStickRadioRegister" THEN 11
        ELSE IF k = "ReadStickRadio" THEN 20
        ELSE IF k = "WriteStickRadio" THEN 21
        ELSE IF k = "WriteReadStickRadio" THEN 22
        ELSE 30]

\* C32: WriteReadStickRadio.send writes, in this order and nothing else:
\* opcode 22, TX channel, write repeat count, repeat delay in 4 bytes, RX
\* channel, radio timeout in 4 bytes, retry count, the data bytes, and a
\* final 0; every stick command writes its own opcode first.
C32_WireOrder ==
    (pc = "receive") =>
        /\ Len(frames) >= 1
        /\ frames[1] = <<"int", <<Opcodes[kind]>>>>
        /\ kind = "WriteReadStickRadio" =>
              /\ Len(frames) = 9
              /\ frames[2] = <<"int", <<arg.channelTX>>>>
              /\ frames[3] = <<"int", <<arg.repeat>>>>
              /\ frames[4][1] = "list"
              /\ BigEndian4(frames[4][2], arg.delay)
              /\ frames[5] = <<"int", <<arg.channelRX>>>>
              /\ frames[6][1] = "list"
              /\ BigEndian4(frames[6][2], arg.timeout)
              /\ frames[7] = <<"int", <<arg.retry>>>>
              /\ frames[8] = <<"list", arg.data>>
              /\ frames[9] = <<"int", <<0>>>>

\* a frame of two bytes written with every argument off its default
C32_Witness ==
    /\ pc = "receive"
    /\ kind = "WriteReadStickRadio"
    /\ frames = <<<<"int", <<22>>>>, <<"int", <<5>>>>, <<"int", <<4>>>>,
                  <<"list", <<0, 0, 1, 2>>>>, <<"int", <<2>>>>,
                  <<"list", <<0, 1, 17, 112>>>>, <<"int", <<0>>>>,
                  <<"list", <<167, 1>>>>, <<"int", <<0>>>>>>

(***************************************************************************)
(* encode of the temporary basal (TB) commands.  A rate in U/h is given in *)
(* thousandths, a rate in percent in tenths; a duration is a number of     *)
(* minutes given as an integer or as a float.                              *)
(***************************************************************************)
\* largest absolute rate given to encode, in thousandths of a U/h
MaxMilli == 35020
\* largest percentage given to encode, in tenths of a percent
MaxTenths == 2010
\* largest duration given to encode, in minutes
MaxMinutes == 1460

\* pump.basal.stroke, in thousandths of a U/h (0.025 U/h)
BasalStroke == 25

TBKinds == {"SetPumpAbsoluteTB", "SetPumpPercentageTB"}

TBCode(k) == IF k = "SetPumpAbsoluteTB" THEN H("4", "C") ELSE H("6", "9")

TBArgs(k) ==
    {[rate |-> r, float |-> f, duration |-> d] :
        r \in IF k = "SetPumpAbsoluteTB"
              THEN ((-15)..30) \cup ((MaxMilli - 40)..MaxMilli)
              ELSE ((-6)..12) \cup ((MaxTenths - 20)..MaxTenths),
        f \in BOOLEAN,
        d \in ((-31)..65) \cup ((MaxMinutes - 35)..MaxMinutes)}

\* round(x) of the float x = num / den (den > 0): the nearest integer, a
\* tie going away from zero
Round(num, den) ==
    IF num >= 0 THEN (2 * num + den) \div (2 * den)
    ELSE -((2 * (-num) + den) \div (2 * den))

\* variant of TBDuration: the quotient is a float whatever the operands
TBDuration_trueDivision(a) == Round(a.duration, BasalTime)

\* int(round(duration / self.pump.basal.time)): the time block is an integer,
\* so that the quotient of an integer duration is an integer division
\* (rounded down) and round finds nothing left to round
TBDuration(a) ==
    IF a.float THEN Round(a.duration, BasalTime)
    ELSE a.duration \div BasalTime

\* lib.pack(x, n = 2): x in 2 bytes, the most significant one first
Pack2(x) == <<(x \div 256) % 256, x % 256>>

\* SetPumpAbsoluteTB.encode
SetPumpAbsoluteTBEncode(a, old) ==
    LET rate == Round(a.rate, BasalStroke)
        duration == TBDuration(a) IN
    IF ~WithinRangeInt(rate, 0, 1400) THEN Rejected(old)
    ELSE IF ~WithinRangeInt(duration, 0, 48) THEN Rejected(old)
    ELSE Encoded([Block(H("0", "3")) EXCEPT ![2] = Hexify(Pack2(rate)[1]),
                                            ![3] = Hexify(Pack2(rate)[2]),
                                            ![4] = Hexify(duration)])

\* SetPumpPercentageTB.encode
SetPumpPercentageTBEncode(a, old) ==
    LET rate == Round(a.rate, 10)
        duration == TBDuration(a) IN
    IF ~WithinRangeInt(rate, 0, 200) THEN Rejected(old)
    ELSE IF ~WithinRangeInt(duration, 0, 48) THEN Rejected(old)
    ELSE Encoded([Block(H("0", "2")) EXCEPT ![2] = Hexify(rate),
                                            ![3] = Hexify(duration)])

InitTB ==
    /\ kind \in TBKinds
    /\ arg \in TBArgs(kind)
    /\ obj = [NewObj(kind) EXCEPT !.code = TBCode(kind)]
    /\ prev = NoPrev
    /\ repeat = PumpBigRepeat
    /\ retry = PumpCommandRetry
    /\ pc = "encode"
    /\ phases = <<"reset", "encode">>
    /\ i = 0
    /\ n = 0
    /\ packetsRX = <<>>
    /\ subRX = NoSub
    /\ response = None
    /\ err = "none"
    /\ frames = <<>>
    /\ page = NoPage
    /\ caller = "none"
    /\ errArgs = <<>>
    /\ subTX = NoSub
    /\ reporter = NoReports
    /\ Elsewhere

\* self.encode(rate, duration) of a TB command
TBEncode ==
    /\ pc = "encode"
    /\ LET e == IF kind = "SetPumpAbsoluteTB"
                THEN SetPumpAbsoluteTBEncode(arg, obj.parameters)
                ELSE SetPumpPercentageTBEncode(arg, obj.parameters) IN
        /\ obj' = [obj EXCEPT !.parameters = e.parameters]
        /\ IF e.err # "none"
           THEN Raise(e.err) /\ UNCHANGED phases
           ELSE Leave("encode") /\ UNCHANGED err
    /\ UNCHANGED <<prev, kind, repeat, retry, i, n, packetsRX, subRX, response,
                   frames, page, arg, caller, errArgs, subTX, reporter, stick,
                   heap, cur>>

NextTB == TBEncode

SpecTB == InitTB /\ [][NextTB]_vars

\* x is num / den rounded: an integer nearest to the quotient
Nearest(x, num, den) ==
    /\ 2 * (den * x - num) <= den
    /\ 2 * (num - den * x) <= den

\* the integers next to num / den
Around(num, den) == {num \div den, (num \div den) + 1}

\* what a unit of the encoded rate is worth in units of the rate given
PerRate(k) == IF k = "SetPumpAbsoluteTB" THEN BasalStroke ELSE 10

\* C33: the TB encoders convert the rate (to strokes, rate / basal stroke
\* rounded, for the absolute TB; to whole percents for the percentage TB)
\* and the duration to time blocks (duration / time block, rounded), refuse
\* the call unless the rate is in [0, 1400] (absolute) or [0, 200]
\* (percentage) and the blocks in [0, 48], and otherwise produce the
\* 65-entry block "03", strokes in two big-endian bytes, blocks, zeros
\* (absolute) or "02", rate, blocks, zeros (percentage).
C33_TBEncode ==
    (kind \in TBKinds /\ pc # "encode") =>
        \E r \in Around(arg.rate, PerRate(kind)),
           b \in Around(arg.duration, BasalTime) :
            /\ Nearest(r, arg.rate, PerRate(kind))
            /\ Nearest(b, arg.duration, BasalTime)
            /\ IF kind = "SetPumpAbsoluteTB"
               THEN IF 0 <= r /\ r <= 1400 /\ 0 <= b /\ b <= 48
                    THEN /\ pc = "prelude" /\ err = "none"
                         /\ obj.parameters[1] = <<"0", "3">>
                         /\ obj.parameters[2] = HexByte(r \div 256)
                         /\ obj.parameters[3] = HexByte(r % 256)
                         /\ obj.parameters[4] = HexByte(b)
                         /\ ZeroFrom(5)
                    ELSE EncodeRefused
               ELSE IF 0 <= r /\ r <= 200 /\ 0 <= b /\ b <= 48
                    THEN /\ pc = "prelude" /\ err = "none"
                         /\ obj.parameters[1] = <<"0", "2">>
                         /\ obj.parameters[2] = HexByte(r)
                         /\ obj.parameters[3] = HexByte(b)
                         /\ ZeroFrom(4)
                    ELSE EncodeRefused

(***************************************************************************)
(* The dosing decisions of the calculator: computeTB, limitTB, snooze and  *)
(* recommendTB.  A rate is a number of 0.0025 U/h (a basal rate, a         *)
(* multiple of the pump's stroke, is a multiple of 10), a dose a number of *)
(* 0.0025 U, a BG a number of hundredths of a mmol/L, a time a number of   *)
(* minutes since the midnight that began day 0.                            *)
(***************************************************************************)
\* 4.2, 8.5 and 11.0 mmol/L
BG_LOW_LIMIT == 420
BG_HIGH_LIMIT == 850
BG_VERY_HIGH_LIMIT == 1100
\* 0.5 h, in minutes
DOSE_ENACT_TIME == 30

\* a TB recommendation: the values under "Rate", "Units" and "Duration"
TBOf(rate, units, duration) == <<rate, units, duration>>

\* basal profiles: the values of the steps, the last one the current basal
BasalProfiles == {<<100>>, <<100, 240>>, <<240, 100>>, <<0, 0>>}

\* basal.max: the theoretical max basal, from the pump's settings
BasalMaxes == {140, 800, 14000}

BGs == {300, 419, 420, 421, 849, 850, 851, 1099, 1100, 1101, 1500}

\* largest TB rate given to limitTB
MaxRate == 20000

TBRates == {-400, -1, 0, 1, 150, 300, 401, 599, 600, 601, 900, 1441, MaxRate}

\* the current time is the end of the basal profile
Nows == {3 * 1440 + 30, 3 * 1440 + 720, 3 * 1440 + 1430}

\* times of carbs entries, relative to the current time
CarbsAges == {3000, 1480, 121, 120, 119, 1, -5, -15}

\* the carbs entries of the treatments report: none, one or two
CarbsEntries(now) ==
    {{now - a, now - b} : a, b \in CarbsAges} \cup {{}}

\* doses computeDose returns
Doses == {-300, -50, -1, 0, 1, 50, 400, 3000}

LimitArgs ==
    {[TB |-> TBOf(r, "U/h", d), y |-> y, max |-> m, BG |-> bg, dose |-> 0,
      doseErr |-> FALSE, now |-> 0, carbs |-> {}] :
        r \in TBRates, d \in {30, 60}, y \in BasalProfiles, m \in BasalMaxes,
        bg \in BGs}

RecommendArgs ==
    {[TB |-> TBOf(0, "U/h", 0), y |-> y, max |-> 800, BG |-> bg,
      dose |-> IF z THEN 0 ELSE d, doseErr |-> z, now |-> t.now,
      carbs |-> t.carbs] :
        y \in {<<100, 240>>, <<240, 100>>},
        bg \in {300, 420, 851, 1500},
        d \in Doses, z \in BOOLEAN,
        t \in UNION {{[now |-> w, carbs |-> c] : c \in CarbsEntries(w)} :
                        w \in Nows}}

\* max(l) of a list of numbers that is not empty
MaxOf(l) == CHOOSE x \in {l[k] : k \in 1..Len(l)} :
                \A k \in 1..Len(l) : l[k] <= x

\* l[-1]
LastOf(l) == l[Len(l)]

\* f * y for a factor f given in halves and a basal rate y
Times(f2, y) == (f2 * y) \div 2

\* computeTB(dose, basal)
computeTB(dose, y) ==
    TBOf(LastOf(y) + (dose * 60) \div DOSE_ENACT_TIME, "U/h", DOSE_ENACT_TIME)

\* variant of Hypo: a BG at the low limit is not low
Hypo_strict(rate, BG) == rate < 0 \/ BG < BG_LOW_LIMIT

\* limitTB: rate < 0 or BG <= BG_LOW_LIMIT
Hypo(rate, BG) == rate < 0 \/ BG <= BG_LOW_LIMIT

\* variant of Factors: the factors of a high BG are kept for a very high BG
Factors_highOnly(BG) ==
    IF BG >= BG_HIGH_LIMIT THEN [daily |-> 9, current |-> 12]
    ELSE [daily |-> 6, current |-> 8]

\* limitTB: factorDailyMaxBasal and factorCurrentBasal, in halves
Factors(BG) ==
    IF BG >= BG_VERY_HIGH_LIMIT THEN [daily |-> 12, current |-> 16]
    ELSE IF BG >= BG_HIGH_LIMIT THEN [daily |-> 9, current |-> 12]
    ELSE [daily |-> 6, current |-> 8]

Min3(a, b, c) == Min(a, Min(b, c))

\* limitTB(TB, basal, BG)
limitTB(TB, y, max, BG) ==
    LET rate == TB[1] IN
    IF Hypo(rate, BG) THEN TBOf(0, TB[2], TB[3])
    ELSE IF rate > 0
    THEN LET maxRate == Min3(Times(Factors(BG).current, LastOf(y)),
                             Times(Factors(BG).daily, MaxOf(y)),
                             max)
         IN  TBOf(IF rate > maxRate THEN maxRate ELSE rate, TB[2], TB[3])
    ELSE TBOf(rate, TB[2], TB[3])

\* the day of a time
Date(t) == t \div 1440

\* reporter.getDatedEntries(reporter.TreatmentsReport, [yesterday, today],
\* ["Carbs"]): the entries dated yesterday or today
LastCarbs(now, carbs) ==
    {t \in carbs : Date(t) \in {Date(now) - 1, Date(now)}}

SetMax(S) == CHOOSE x \in S : \A z \in S : z <= x

\* variant of snooze: a meal exactly two hours old still snoozes
snooze_inclusive(now, carbs) ==
    /\ LastCarbs(now, carbs) # {}
    /\ now - SetMax(LastCarbs(now, carbs)) <= 120

\* snooze(now, duration = 2)
snooze(now, carbs) ==
    /\ LastCarbs(now, carbs) # {}
    /\ now - SetMax(LastCarbs(now, carbs)) < 120

\* recommendTB: the TB limited, or None when snoozing
recommendTB(a) ==
    LET TB == limitTB(computeTB(a.dose, a.y), a.y, a.max, a.BG) IN
    IF snooze(a.now, a.carbs) THEN None ELSE TB

DoseKinds == {"limitTB", "recommendTB"}

InitDose ==
    /\ kind \in DoseKinds
    /\ arg \in IF kind = "limitTB" THEN LimitArgs ELSE RecommendArgs
    /\ obj = NewObj(kind)
    /\ prev = NoPrev
    /\ repeat = NoRepeat
    /\ retry = PumpCommandRetry
    /\ pc = "call"
    /\ phases = <<>>
    /\ i = 0
    /\ n = 0
    /\ packetsRX = <<>>
    /\ subRX = NoSub
    /\ response = None
    /\ err = "none"
    /\ frames = <<>>
    /\ page = NoPage
    /\ caller = "none"
    /\ errArgs = <<>>
    /\ subTX = NoSub
    /\ reporter = NoReports
    /\ Elsewhere

\* limitTB(TB, basal, BG) is called and returns
LimitCall ==
    /\ pc = "call"
    /\ kind = "limitTB"
    /\ response' = limitTB(arg.TB, arg.y, arg.max, arg.BG)
    /\ pc' = "return"
    /\ UNCHANGED <<obj, prev, kind, repeat, retry, i, n, packetsRX, subRX, err,
                   phases, frames, page, arg, caller, errArgs, subTX, reporter,
                   stick, heap, cur>>

\* recommendTB(BGDynamics, basal, futureISF, IDC, IOB) is called; computeDose
\* returns a dose or fails on a division by zero
RecommendCall ==
    /\ pc = "call"
    /\ kind = "recommendTB"
    /\ IF arg.doseErr
       THEN /\ err' = "ZeroDivisionError"
            /\ pc' = "failed"
            /\ UNCHANGED response
       ELSE /\ response' = recommendTB(arg)
            /\ pc' = "return"
            /\ UNCHANGED err
    /\ UNCHANGED <<obj, prev, kind, repeat, retry, i, n, packetsRX, subRX,
                   phases, frames, page, arg, caller, errArgs, subTX, reporter,
                   stick, heap, cur>>

NextDose ==
    \/ LimitCall
    \/ RecommendCall

SpecDose == InitDose /\ [][NextDose]_vars

\* C34: limitTB returns rate 0 whenever the recommended rate is negative or
\* the BG is at or below 4.2 mmol/L, whatever the basal profile and however
\* large the recommended rate; Units and Duration are returned unchanged.
C34_HypoStopsInsulin ==
    (kind = "limitTB" /\ pc = "return") =>
        /\ (arg.TB[1] < 0 \/ arg.BG <= 420) => response[1] = 0
        /\ response[2] = arg.TB[2]
        /\ response[3] = arg.TB[3]

\* the largest rate, with a large basal, at a BG of exactly 4.2
C34_Witness ==
    /\ kind = "limitTB"
    /\ pc = "return"
    /\ arg.TB = <<MaxRate, "U/h", 60>>
    /\ arg.BG = 420
    /\ arg.y = <<100, 240>>
    /\ arg.max = 14000
    /\ response = <<0, "U/h", 60>>

\* C35: for a BG above 4.2 and a positive recommended rate, limitTB returns
\* the smallest of the recommended rate, fc times the current basal, fd
\* times the largest basal of the profile and the theoretical max basal,
\* with (fc, fd) = (4, 3), (6, 4.5) from a BG of 8.5 and (8, 6) from a BG of
\* 11.0; so the rate returned is never negative, never above the recommended
\* rate and never above the theoretical max basal.
C35_MaxBasal ==
    (kind = "limitTB" /\ pc = "return" /\ arg.BG > 420 /\ arg.TB[1] > 0) =>
        LET f == IF arg.BG >= 1100 THEN <<16, 12>>
                 ELSE IF arg.BG >= 850 THEN <<12, 9>>
                 ELSE <<8, 6>>
            current == arg.y[Len(arg.y)]
            largest == CHOOSE v \in {arg.y[k] : k \in DOMAIN arg.y} :
                           \A k \in DOMAIN arg.y : arg.y[k] <= v
            caps == {2 * arg.TB[1], f[1] * current, f[2] * largest,
                     2 * arg.max}
        IN  /\ 2 * response[1] \in caps
            /\ \A c \in caps : 2 * response[1] <= c
            /\ response[1] >= 0
            /\ response[1] <= arg.TB[1]
            /\ response[1] <= arg.max

\* at a BG of exactly 11.0 a rate just above 6 times the largest basal is
\* cut to it
C35_Witness ==
    /\ kind = "limitTB"
    /\ pc = "return"
    /\ arg.BG = 1100
    /\ arg.y = <<100, 240>>
    /\ arg.max = 14000
    /\ arg.TB[1] = 1441
    /\ response[1] = 1440

\* C36: recommendTB returns None exactly when snoozing applies, that is when
\* the most recent carbs entry of yesterday and today is less than 2 hours
\* older than the end of the basal profile; otherwise it returns the TB of
\* computeTB (current basal + dose / 0.5 h, 30 minutes, U/h) limited by
\* limitTB.
C36_SnoozeOrLimitedTB ==
    (kind = "recommendTB" /\ pc = "return") =>
        LET recent == {t \in arg.carbs :
                          \/ t \div 1440 = arg.now \div 1440
                          \/ t \div 1440 = (arg.now \div 1440) - 1}
            snoozing == \E t \in recent :
                            /\ \A z \in recent : z <= t
                            /\ arg.now - t < 120
        IN  /\ (response = None) <=> snoozing
            /\ ~snoozing =>
                  response = limitTB(<<arg.y[Len(arg.y)] + 2 * arg.dose,
                                       "U/h", 30>>,
                                     arg.y, arg.max, arg.BG)

\* a meal 119 minutes ago, after an older one: no recommendation
C36_Witness ==
    /\ kind = "recommendTB"
    /\ pc = "return"
    /\ arg.carbs = {arg.now - 119, arg.now - 1480}
    /\ arg.dose = 400
    /\ response = None

(***************************************************************************)
(* countValidBGs and computeBGI on a profile of past BGs.  The times of    *)
(* the BGs are minutes, in increasing order; the end of the profile is the *)
(* current time.                                                           *)
(***************************************************************************)
\* the end of the BG profiles
BGEnd == 100

\* ages of the BGs a profile is made of, in minutes before its end
BGAges == {45, 31, 30, 29, 20, 15, 10, 5, 0}

\* the increasing sequence of the elements of a set of numbers
RECURSIVE Sorted(_)
Sorted(S) ==
    IF S = {} THEN <<>>
    ELSE LET m == CHOOSE x \in S : \A z \in S : x <= z
         IN  <<m>> \o Sorted(S \ {m})

\* pastBG.T of the profiles given
BGTimes == {Sorted({BGEnd - a : a \in A}) : A \in SUBSET BGAges}

BGKinds == {"countValidBGs", "computeBGI"}

BGArgs(k) ==
    IF k = "computeBGI"
    THEN {[T |-> T, end |-> BGEnd, maxAge |-> 30, N |-> 4] : T \in BGTimes}
    ELSE {[T |-> T, end |-> BGEnd, maxAge |-> m, N |-> c] :
            T \in BGTimes, m \in {30, 10}, c \in {4, 2, 0}}

\* variant of ValidBGs: a BG exactly maxAge old is counted
ValidBGs_inclusive(T, end, maxAge) ==
    Cardinality({k \in 1..Len(T) : T[k] >= end - maxAge})

\* np.sum(np.array(pastBG.T) > pastBG.end - timedelta(minutes = maxAge))
ValidBGs(T, end, maxAge) ==
    Cardinality({k \in 1..Len(T) : T[k] > end - maxAge})

\* countValidBGs(pastBG, maxAge, N): the error raised (if any) and the count
countValidBGs(T, end, maxAge, N) ==
    LET c == ValidBGs(T, end, maxAge) IN
    IF c < N THEN [err |-> "NotEnoughBGs", n |-> c]
    ELSE [err |-> "none", n |-> c]

\* l[-k:] for 0 < k
LastN(l, k) == SubSeq(l, IF k >= Len(l) THEN 1 ELSE Len(l) - k + 1, Len(l))

InitBG ==
    /\ kind \in BGKinds
    /\ arg \in BGArgs(kind)
    /\ obj = NewObj(kind)
    /\ prev = NoPrev
    /\ repeat = NoRepeat
    /\ retry = PumpCommandRetry
    /\ pc = "call"
    /\ phases = <<>>
    /\ i = 0
    /\ n = 0
    /\ packetsRX = <<>>
    /\ subRX = NoSub
    /\ response = None
    /\ err = "none"
    /\ frames = <<>>
    /\ page = NoPage
    /\ caller = "none"
    /\ errArgs = <<>>
    /\ subTX = NoSub
    /\ reporter = NoReports
    /\ Elsewhere

\* countValidBGs(pastBG, maxAge, N) is called: it raises or returns n
CountCall ==
    /\ pc = "call"
    /\ kind = "countValidBGs"
    /\ LET c == countValidBGs(arg.T, arg.end, arg.maxAge, arg.N) IN
        /\ err' = c.err
        /\ n' = IF c.err = "none" THEN c.n ELSE n
        /\ errArgs' = IF c.err = "none" THEN errArgs
                      ELSE <<c.n, arg.N, arg.maxAge>>
        /\ pc' = IF c.err = "none" THEN "return" ELSE "failed"
    /\ UNCHANGED <<obj, prev, kind, repeat, retry, i, packetsRX, subRX,
                   response, phases, frames, page, arg, caller, subTX,
                   reporter, stick, heap, cur>>

\* computeBGI(pastBG) is called: n = countValidBGs(pastBG, 30, 4), then the
\* fit over the last n BGs (frames: the times of the BGs fitted)
BGICall ==
    /\ pc = "call"
    /\ kind = "computeBGI"
    /\ LET c == countValidBGs(arg.T, arg.end, 30, 4) IN
        /\ err' = c.err
        /\ n' = IF c.err = "none" THEN c.n ELSE n
        /\ errArgs' = IF c.err = "none" THEN errArgs ELSE <<c.n, 4, 30>>
        /\ frames' = IF c.err = "none" THEN LastN(arg.T, c.n) ELSE frames
        /\ pc' = IF c.err = "none" THEN "return" ELSE "failed"
    /\ UNCHANGED <<obj, prev, kind, repeat, retry, i, packetsRX, subRX,
                   response, phases, page, arg, caller, subTX, reporter,
                   stick, heap, cur>>

NextBG ==
    \/ CountCall
    \/ BGICall

SpecBG == InitBG /\ [][NextBG]_vars

\* the BGs of arg.T strictly later than age minutes before the end
Recent(age) == {t \in {arg.T[k] : k \in 1..Len(arg.T)} : t > arg.end - age}

MaxTime == 4

\* self.zero: the default value of a step
Zero == 0

StepValues == {0, 1, 2}

\* a profile after cut: steps inside the window, in increasing order of time
CutProfiles ==
    UNION {{[T |-> Sorted(S), y |-> y, t |-> <<>>] :
                y \in [1..Cardinality(S) -> StepValues]} :
           S \in SUBSET (1..MaxTime)}

\* what cut returns: the value of the step before the window, None if none
Lasts == {<<>>, <<1>>, <<2>>}

\* StepProfile.pad(a, b, last)
Pad(p, a, b, last) ==
    LET l == IF last = <<>> THEN Zero ELSE last[1]
        q == IF Len(p.T) = 0 \/ p.T[1] # a
             THEN [p EXCEPT !.T = <<a>> \o p.T, !.y = <<l>> \o p.y]
             ELSE p
    IN  IF q.T[Len(q.T)] # b
        THEN [q EXCEPT !.T = Append(q.T, b), !.y = Append(q.y, q.y[Len(q.y)])]
        ELSE q

\* the loop of smooth from step k on, the profile kept so far being (T, y)
RECURSIVE SmoothFrom(_, _, _, _)
SmoothFrom(p, k, T, y) ==
    IF k > Len(p.T) - 1 THEN [T |-> T, y |-> y]
    ELSE IF p.y[k] # y[Len(y)]
    THEN SmoothFrom(p, k + 1, Append(T, p.T[k]), Append(y, p.y[k]))
    ELSE SmoothFrom(p, k + 1, T, y)

\* variant of Smooth: a step is compared with the first step of the profile
Smooth_againstFirst(p) ==
    LET keep == {k \in 2..(Len(p.T) - 1) : p.y[k] # p.y[1]}
        idx == <<1>> \o Sorted(keep) \o <<Len(p.T)>>
    IN  [p EXCEPT !.T = [k \in 1..Len(idx) |-> p.T[idx[k]]],
                  !.y = [k \in 1..Len(idx) |-> p.y[idx[k]]]]

\* StepProfile.smooth
Smooth(p) ==
    LET s == SmoothFrom(p, 2, <<p.T[1]>>, <<p.y[1]>>) IN
    [p EXCEPT !.T = Append(s.T, p.T[Len(p.T)]),
              !.y = Append(s.y, p.y[Len(p.y)])]

\* Profile.normalize: the times of T relative to the end of the profile
Normalize(p) == [p EXCEPT !.t = [k \in 1..Len(p.T) |-> p.T[k] - MaxTime]]

\* the loop of f from step k on: the error raised (if any) and the value
RECURSIVE FFrom(_, _, _, _)
FFrom(axis, y, t, k) ==
    IF k > Len(axis) THEN [err |-> "ValueError", value |-> None]
    ELSE IF k = Len(axis) /\ axis[k] = t
    THEN [err |-> "none", value |-> <<y[k]>>]
    ELSE IF ~(axis[k] <= t) THEN FFrom(axis, y, t, k + 1)
    ELSE IF k = Len(axis) THEN [err |-> "IndexError", value |-> None]
    ELSE IF t < axis[k + 1] THEN [err |-> "none", value |-> <<y[k]>>]
    ELSE FFrom(axis, y, t, k + 1)

\* StepProfile.f(t), for t a datetime or a real number
F(p, tt) ==
    LET axis == IF tt[1] = "datetime" THEN p.T ELSE p.t IN
    IF Len(axis) # Len(p.y) THEN [err |-> "ArithmeticError", value |-> None]
    ELSE FFrom(axis, p.y, tt[2], 1)

\* the times f is called with: in and around the window, on either axis
FTimes ==
    {<<"datetime", t>> : t \in 0..(MaxTime + 1)}
        \cup {<<"number", t>> : t \in (-MaxTime)..1}

NoTime == <<"none", 0>>

InitStep ==
    /\ kind = "StepProfile"
    /\ obj \in CutProfiles
    /\ arg \in {[a |-> 1, b |-> MaxTime, last |-> l] : l \in Lasts}
    /\ prev = obj
    /\ repeat = NoRepeat
    /\ retry = PumpCommandRetry
    /\ pc = "cut"
    /\ phases = <<>>
    /\ i = 0
    /\ n = 0
    /\ packetsRX = <<>>
    /\ subRX = NoSub
    /\ response = None
    /\ err = "none"
    /\ frames = <<>>
    /\ page = NoTime
    /\ caller = "none"
    /\ errArgs = <<>>
    /\ subTX = NoSub
    /\ reporter = NoReports
    /\ Elsewhere

\* the call of f that came before is over
Returned ==
    /\ caller' = "build"
    /\ page' = NoTime
    /\ response' = None
    /\ err' = "none"

\* build: self.pad(start, end, self.cut())
PadCall ==
    /\ pc = "cut"
    /\ obj' = Pad(obj, arg.a, arg.b, arg.last)
    /\ prev' = obj
    /\ pc' = "padded"
    /\ Returned
    /\ UNCHANGED <<kind, repeat, retry, i, n, packetsRX, subRX, phases, frames,
                   arg, errArgs, subTX, reporter, stick, heap, cur>>

\* self.smooth(), by build and then a second time
SmoothCall ==
    /\ pc \in {"padded", "smoothed"}
    /\ obj' = Smooth(obj)
    /\ prev' = obj
    /\ pc' = IF pc = "padded" THEN "smoothed" ELSE "smoothed twice"
    /\ Returned
    /\ UNCHANGED <<kind, repeat, retry, i, n, packetsRX, subRX, phases, frames,
                   arg, errArgs, subTX, reporter, stick, heap, cur>>

\* build: self.normalize()
NormalizeCall ==
    /\ pc \in {"smoothed", "smoothed twice"}
    /\ obj' = Normalize(obj)
    /\ prev' = obj
    /\ pc' = "normalized"
    /\ Returned
    /\ UNCHANGED <<kind, repeat, retry, i, n, packetsRX, subRX, phases, frames,
                   arg, errArgs, subTX, reporter, stick, heap, cur>>

\* self.f(t) on the profile as it is
FCall ==
    /\ \E tt \in FTimes :
        LET r == F(obj, tt) IN
        /\ page' = tt
        /\ response' = r.value
        /\ err' = r.err
    /\ caller' = "f"
    /\ UNCHANGED <<obj, prev, kind, repeat, retry, pc, i, n, packetsRX, subRX,
                   phases, frames, arg, errArgs, subTX, reporter, stick, heap,
                   cur>>

NextStep ==
    \/ PadCall
    \/ SmoothCall
    \/ NormalizeCall
    \/ FCall

SpecStep == InitStep /\ [][NextStep]_vars

\* the axis f reads for the time it was called with
AxisRead == IF page[1] = "datetime" THEN obj.T ELSE obj.t

\* step k of the axis holds the time x
InStep(axis, k, x) ==
    \/ k < Len(axis) /\ axis[k] <= x /\ x < axis[k + 1]
    \/ k = Len(axis) /\ axis[k] = x

\* C38: f(t) returns y[i] for the first step i with axis[i] <= t < axis[i+1],
\* and y[n-1] when t is the last point of the axis; when there is no such
\* step (t before the first or after the last point) it raises ValueError;
\* it raises ArithmeticError when the axis and y differ in length.
C38_StepValueOrValueError ==
    (caller = "f") =>
        LET steps == {k \in 1..Len(AxisRead) : InStep(AxisRead, k, page[2])}
        IN  IF Len(AxisRead) # Len(obj.y) THEN err = "ArithmeticError"
            ELSE IF steps = {} THEN err = "ValueError"
            ELSE /\ err = "none"
                 /\ response =
                      <<obj.y[CHOOSE k \in steps : \A m \in steps : k <= m]>>

\* the steps of the profile before smoothing whose time is still there
Kept == {j \in 1..Len(prev.T) : \E k \in 1..Len(obj.T) : obj.T[k] = prev.T[j]}

\* the last step kept before step j
KeptBefore(j) == CHOOSE m \in Kept : m < j /\ \A z \in Kept : z < j => z <= m

\* C39: smooth, applied to a cut and padded profile of at least two points,
\* keeps the first and the last point, drops exactly the interior steps
\* whose value equals the value of the step kept before them, keeps T and y
\* the same length, and leaves f(t) as it was for every t from the first to
\* the last point; smoothing a smoothed profile changes nothing.
C39_SmoothKeepsFunction ==
    (pc \in {"smoothed", "smoothed twice"}) =>
        LET m == Len(prev.T) IN
        /\ m >= 2
        /\ Len(obj.T) = Len(obj.y)
        /\ obj.T[1] = prev.T[1] /\ obj.y[1] = prev.y[1]
        /\ obj.T[Len(obj.T)] = prev.T[m] /\ obj.y[Len(obj.y)] = prev.y[m]
        /\ \A k \in 1..Len(obj.T) :
              \E j \in 1..m : obj.T[k] = prev.T[j] /\ obj.y[k] = prev.y[j]
        /\ \A k \in 1..(Len(obj.T) - 1) : obj.T[k] < obj.T[k + 1]
        /\ \A j \in 2..(m - 1) :
              (j \notin Kept) <=> (prev.y[j] = prev.y[KeptBefore(j)])
        /\ \A t \in prev.T[1]..prev.T[m] :
              /\ F(prev, <<"datetime", t>>) = F(obj, <<"datetime", t>>)
              /\ F(obj, <<"datetime", t>>).err = "none"
        /\ pc = "smoothed twice" => obj = prev

\* two of three interior steps repeat the value before them and are dropped
C39_Witness ==
    /\ pc = "smoothed"
    /\ prev.T = <<1, 2, 3, MaxTime>>
    /\ prev.y = <<1, 1, 2, 2>>
    /\ obj.T = <<1, 3, MaxTime>>
    /\ obj.y = <<1, 2, 2>>

====
